---- MODULE Spec2Model ----
(***************************************************************************)
(* State-machine model of the asynchronous mail delivery subsystem of      *)
(* sandbox_api: the bounded in-memory job queue with its worker pool       *)
(* (internal/mailer/smtp_inmemory.go, and its twin http_inmemory.go whose  *)
(* queue logic is line for line the same), the delivery facade             *)
(* Send / SendWithOptions, and the transport's retry loop.                 *)
(*                                                                         *)
(* Three specifications share the module: Spec is the queue with its      *)
(* callers and workers, TransportSpec is one call of a transport's Send    *)
(* taken step by step, HostSpec is main of cmd/api driving the queue.      *)
(*                                                                         *)
(* Goroutines are modelled as processes with a program counter:            *)
(*   callers (HTTP handlers, main) : cpc[c]                                *)
(*   workers (go m.worker(i))      : wpc[w]                                *)
(* sync.Mutex m.mu is the variable mu (0 = free, c = held by caller c).    *)
(* Time is discrete; one tick is half of the 100 ms wait window.           *)
(***************************************************************************)
EXTENDS Integers, Sequences, FiniteSets, TLC

\* ---------------------------------------------------------------- bounds
NumCallers == 2
MaxWorkerArg == 1
MaxQueueArg == 1
MaxJobs == 3
MaxElapsed == 3
MaxDuration == 1
MaxStale == 2

\* ------------------------------------------------------ program constants
DefaultWorkerCount == 2
DefaultQueueSize == 100
WaitWindow == 2
maxRetries == 3

Callers == 1..NumCallers
JobIds == 1..MaxJobs
WorkerArgs == {0, MaxWorkerArg}
QueueArgs == {MaxQueueArg}
Durations == 1..MaxDuration

SyncDelivery == "sync"
AsyncInMemory == "async_memory"
AsyncPersistent == "async_db"
DeliveryModes == {SyncDelivery, AsyncInMemory, AsyncPersistent}

ErrQueueNotRunning == "ErrQueueNotRunning"
ErrQueueFull == "ErrQueueFull"

Min(a, b) == IF a < b THEN a ELSE b

VARIABLES
    args,            \* the arguments NewInMemoryMailer was called with
    workerCount,     \* m.workerCount, fixed by the constructor
    queueSize,       \* cap(m.queue), fixed by the constructor
    running,         \* m.running
    closed,          \* whether close(m.queue) has been executed
    queue,           \* the buffer of m.queue: a sequence of job ids
    mu,              \* m.mu: 0 when free, else the caller holding it
    wg,              \* the counter of m.wg
    processingTime,  \* m.processingTime
    wpc,             \* worker position: "none", "recv", "send", "lock", "done"
    stale,           \* live workers spawned by an earlier Start
    wjob,            \* the job a worker pulled (0 = none)
    werr,            \* the result baseMailer.Send returned to the worker
    cpc,             \* caller position
    cop,             \* the code the caller's last call runs: "Start", "Stop",
                     \* "Enqueue" (Send and the asynchronous modes of
                     \* SendWithOptions) or "SyncSend" (sync mode)
    cjob,            \* the job built by the caller's Send (0 = none)
    enqRet,          \* what Enqueue returned to the caller's Send
    cdeliv,          \* what baseMailer.Send returned to a synchronous call
    cret,            \* what the call returned to the caller
    elapsed,         \* ticks since the caller invoked its asynchronous call
    timer,           \* ticks since time.After was armed in Enqueue's select
    nextJob,         \* next job id
    accepted,        \* jobs for which Enqueue returned nil
    sent,            \* number of baseMailer.Send calls made by workers per job
    done,            \* jobs whose delivery a worker has finished and logged
    lifecycle,       \* "new", "running", "stopped": last effective Start/Stop
    transport,       \* one call of a transport's Send, step by step
    host,            \* the host process: main of cmd/api
    facade,          \* the delivery mode each caller passes to SendWithOptions
    fifo,            \* history: the orders of entry, of pulling and of sending
    handler,         \* one request served by registerUserHandler
    limiter          \* the FixedWindowRateLimiter, for one IP

vars == <<args, workerCount, queueSize, running, closed, queue, mu, wg, processingTime,
          wpc, stale, wjob, werr, cpc, cop, cjob, enqRet, cdeliv, cret,
          elapsed, timer, nextJob, accepted, sent, done, lifecycle,
          transport, host, facade, fifo, handler, limiter>>

\* The variables of the queue, and those of the components around it, which
\* no step of the queue touches.
queueVars == <<args, workerCount, queueSize, running, closed, queue, mu, wg,
               processingTime, wpc, stale, wjob, werr, cpc, cop, cjob, enqRet,
               cdeliv, cret, elapsed, timer, nextJob, accepted, sent, done,
               lifecycle>>
otherVars == <<transport, host, facade, fifo, handler, limiter>>

\* What the steps of each of these components leave alone.
exceptTransport == <<host, facade, fifo, handler, limiter>>
exceptHost == <<transport, facade, fifo, handler, limiter>>
exceptFacade == <<transport, host, fifo, handler, limiter>>
exceptFifo == <<transport, host, facade, handler, limiter>>
exceptHandler == <<transport, host, facade, fifo, limiter>>
exceptLimiter == <<transport, host, facade, fifo, handler>>

cfgVars == <<args, workerCount, queueSize>>
chanVars == <<running, closed, queue>>
workerVars == <<wpc, stale, wjob, werr>>
jobVars == <<nextJob, accepted, sent, done>>

Workers == 0..(workerCount - 1)

\* ------------------------------------------------------------- transport
\* The retry loop of the transport: net[k] says whether network attempt k
\* succeeds.  Returns the error and the numbers of attempts and sleeps.
RECURSIVE RetryLoop(_, _, _)
RetryLoop(net, attempt, sleeps) ==
    IF attempt > maxRetries
    THEN [err |-> "ErrSend", attempts |-> maxRetries, sleeps |-> sleeps]
    ELSE IF net[attempt]
         THEN [err |-> "nil", attempts |-> attempt, sleeps |-> sleeps]
         ELSE RetryLoop(net, attempt + 1,
                        IF attempt < maxRetries THEN sleeps + 1 ELSE sleeps)

\* baseMailer.Send: render, sandbox short-circuit, then the retry loop.
TransportSend(renderOk, sandbox, net) ==
    IF ~renderOk
    THEN [err |-> "ErrRender", attempts |-> 0, sleeps |-> 0]
    ELSE IF sandbox
         THEN [err |-> "nil", attempts |-> 0, sleeps |-> 0]
         ELSE RetryLoop(net, 1, 0)

\* Every result a delivery can have, over all templates, flags and networks.
SendResults ==
    { TransportSend(r, s, n).err :
        r \in BOOLEAN, s \in BOOLEAN, n \in [1..maxRetries -> BOOLEAN] }

\* ----------------------------------------------------------- construction
\* NewInMemoryMailer: non-positive arguments are replaced by the defaults.
NewWorkerCount(n) == IF n <= 0 THEN DefaultWorkerCount ELSE n
NewQueueSize(q) == IF q <= 0 THEN DefaultQueueSize ELSE q

\* The state NewInMemoryMailer(base, n, q) returns, for n in WA and q in QA.
QueueInitWith(WA, QA) ==
    /\ \E n \in WA : \E q \in QA :
          /\ args = [workerCount |-> n, queueSize |-> q]
          /\ workerCount = NewWorkerCount(n)
          /\ queueSize = NewQueueSize(q)
    /\ running = FALSE
    /\ closed = FALSE
    /\ queue = <<>>
    /\ mu = 0
    /\ wg = 0
    /\ processingTime = 0
    /\ wpc = [w \in Workers |-> "none"]
    /\ stale = 0
    /\ wjob = [w \in Workers |-> 0]
    /\ werr = [w \in Workers |-> "nil"]
    /\ cpc = [c \in Callers |-> "idle"]
    /\ cop = [c \in Callers |-> "none"]
    /\ cjob = [c \in Callers |-> 0]
    /\ enqRet = [c \in Callers |-> "none"]
    /\ cdeliv = [c \in Callers |-> "none"]
    /\ cret = [c \in Callers |-> "none"]
    /\ elapsed = [c \in Callers |-> 0]
    /\ timer = 0
    /\ nextJob = 1
    /\ accepted = {}
    /\ sent = [j \in JobIds |-> 0]
    /\ done = {}
    /\ lifecycle = "new"

QueueInit == QueueInitWith(WorkerArgs, QueueArgs)

\* A transport on which Send has not been called, and a host process that
\* is not under observation.
TransportIdle == [pc |-> "idle"]
HostIdle == [pc |-> "none"]

\* No caller has chosen a delivery mode, no history is kept, no request is
\* being served.
FacadeIdle == [c \in Callers |-> "none"]
FifoIdle == [on |-> FALSE]
HandlerIdle == [pc |-> "none"]
LimiterIdle == [on |-> FALSE]

\* The components around the queue at rest, each but the ones a
\* specification is about.
OthersIdle(except) ==
    /\ "transport" \in except \/ transport = TransportIdle
    /\ "host" \in except \/ host = HostIdle
    /\ "facade" \in except \/ facade = FacadeIdle
    /\ "fifo" \in except \/ fifo = FifoIdle
    /\ "handler" \in except \/ handler = HandlerIdle
    /\ "limiter" \in except \/ limiter = LimiterIdle

Init ==
    /\ QueueInit
    /\ OthersIdle({})

\* ---------------------------------------------------------------- helpers
IsAsync(c) == cop[c] = "Enqueue"

\* Mutant of Dispatch: only async_memory is queued, async_db is delivered
\* like sync.
DispatchPersistentSync(mode) ==
    IF mode = AsyncInMemory THEN "Enqueue" ELSE "SyncSend"

\* The branch SendWithOptions takes: sync mode calls the transport directly,
\* every other mode calls Send, which builds the job and calls Enqueue.
Dispatch(mode) == IF mode = SyncDelivery THEN "SyncSend" ELSE "Enqueue"

LiveWorkers == { w \in Workers : wpc[w] \in {"recv", "send", "lock"} }

\* Mutant of SendResult: the result of the delivery is reported instead.
SendResultDelivery(enq) == IF enq = "nil" THEN "ErrSend" ELSE enq

\* What Send (and SendWithOptions in an asynchronous mode) returns, given
\* what Enqueue returned: `return m.Enqueue(job)`.
SendResult(enq) == enq

\* Mutant of SyncResult: the transport's error is swallowed.
SyncResultSwallowed(deliv) == "nil"

\* What SendWithOptions returns in sync mode, given what the transport
\* returned: `return m.baseMailer.Send(...)`.
SyncResult(deliv) == deliv

\* Mutant of WorkerAfterDelivery: the worker returns on a failed delivery.
WorkerStopsOnError(err) == IF err # "nil" THEN "done" ELSE "recv"

\* Where the worker goes after a delivery: `continue` on error, and the end
\* of the loop body on success, both lead back to `range m.queue`.
WorkerAfterDelivery(err) == IF err # "nil" THEN "recv" ELSE "recv"

\* ------------------------------------------------------------ invocations
\* A caller goroutine enters a method of the mailer.
Invoke(c, op, job) ==
    /\ cop' = [cop EXCEPT ![c] = op]
    /\ cjob' = [cjob EXCEPT ![c] = job]
    /\ enqRet' = [enqRet EXCEPT ![c] = "none"]
    /\ cdeliv' = [cdeliv EXCEPT ![c] = "none"]
    /\ cret' = [cret EXCEPT ![c] = "none"]
    /\ elapsed' = [elapsed EXCEPT ![c] = 0]

InvokeStart(c) ==
    /\ cpc[c] = "idle"
    /\ Invoke(c, "Start", 0)
    /\ cpc' = [cpc EXCEPT ![c] = "lock"]
    /\ UNCHANGED <<otherVars, cfgVars, chanVars, mu, wg, processingTime, workerVars,
                   timer, jobVars, lifecycle>>

InvokeStop(c) ==
    /\ cpc[c] = "idle"
    /\ Invoke(c, "Stop", 0)
    /\ cpc' = [cpc EXCEPT ![c] = "lock"]
    /\ UNCHANGED <<otherVars, cfgVars, chanVars, mu, wg, processingTime, workerVars,
                   timer, jobVars, lifecycle>>

\* Send builds the MailJob and calls Enqueue, whose first statement is
\* m.mu.Lock().
InvokeSend(c) ==
    /\ cpc[c] = "idle"
    /\ nextJob <= MaxJobs
    /\ Invoke(c, "Enqueue", nextJob)
    /\ nextJob' = nextJob + 1
    /\ cpc' = [cpc EXCEPT ![c] = "lock"]
    /\ UNCHANGED <<otherVars, cfgVars, chanVars, mu, wg, processingTime, workerVars,
                   timer, accepted, sent, done, lifecycle>>

\* SendWithOptions: sync mode calls the transport directly; every other
\* mode falls through to Send.
InvokeSendWithOptions(c, mode) ==
    /\ cpc[c] = "idle"
    /\ IF Dispatch(mode) = "SyncSend"
       THEN /\ Invoke(c, "SyncSend", 0)
            /\ cpc' = [cpc EXCEPT ![c] = "sync"]
            /\ UNCHANGED nextJob
       ELSE /\ nextJob <= MaxJobs
            /\ Invoke(c, "Enqueue", nextJob)
            /\ nextJob' = nextJob + 1
            /\ cpc' = [cpc EXCEPT ![c] = "lock"]
    /\ UNCHANGED <<otherVars, cfgVars, chanVars, mu, wg, processingTime, workerVars,
                   timer, accepted, sent, done, lifecycle>>

\* Mutant of SyncSendMayRun: the synchronous branch takes the queue's mutex.
SyncSendNeedsMutex == mu = 0

\* What the synchronous branch of SendWithOptions waits for before and
\* during its transport call: nothing, it takes no lock and reads no field
\* of the queue.
SyncSendMayRun == TRUE

\* The transport call of a synchronous SendWithOptions returns.
SyncSendDone(c) ==
    /\ cpc[c] = "sync"
    /\ SyncSendMayRun
    /\ \E r \in SendResults :
          /\ cdeliv' = [cdeliv EXCEPT ![c] = r]
          /\ cret' = [cret EXCEPT ![c] = SyncResult(r)]
    /\ cpc' = [cpc EXCEPT ![c] = "idle"]
    /\ UNCHANGED <<otherVars, cfgVars, chanVars, mu, wg, processingTime, workerVars,
                   cop, cjob, enqRet, elapsed, timer, jobVars, lifecycle>>

\* ---------------------------------------------------------------- Enqueue
\* The caller's return from Enqueue (and so from Send): deferred Unlock.
EnqueueReturn(c, r) ==
    /\ enqRet' = [enqRet EXCEPT ![c] = r]
    /\ cret' = [cret EXCEPT ![c] = SendResult(r)]
    /\ cpc' = [cpc EXCEPT ![c] = "idle"]
    /\ elapsed' = [elapsed EXCEPT ![c] = 0]
    /\ timer' = 0
    /\ mu' = 0

\* Mutant of NotRunning: the running flag is not consulted.
NotRunningUnchecked == FALSE

\* Whether Enqueue rejects the job because the queue is not running.
NotRunning == ~running

\* Mutant of SendPanics: a send on the closed channel is accepted.
SendOnClosedAccepted == FALSE

\* Whether `case m.queue <- job` panics: a send on a closed channel does.
SendPanics == closed

\* Mutant of Push: the job is put at the head of the buffer.
PushFront(q, j) == <<j>> \o q

\* A completed send puts the job behind the jobs the buffer holds.
Push(q, j) == Append(q, j)

\* Mutant of HasRoom: the send completes whatever the buffer holds.
HasRoomAlways == TRUE

\* Whether `case m.queue <- job` can complete at once: the buffer made by
\* make(chan MailJob, queueSize) holds fewer than queueSize jobs.
HasRoom == Len(queue) < queueSize

\* Enqueue from m.mu.Lock() to the select.  A send on a closed channel
\* panics; a send into a buffer with room completes at once; otherwise the
\* goroutine blocks in the select, holding the mutex, with the timer armed.
EnqueueLock(c) ==
    /\ cpc[c] = "lock"
    /\ IsAsync(c)
    /\ mu = 0
    /\ IF NotRunning
       THEN /\ EnqueueReturn(c, ErrQueueNotRunning)
            /\ UNCHANGED <<queue, accepted>>
       ELSE IF SendPanics
       THEN /\ EnqueueReturn(c, "panic")
            /\ UNCHANGED <<queue, accepted>>
       ELSE IF HasRoom
       THEN /\ queue' = Push(queue, cjob[c])
            /\ accepted' = accepted \cup {cjob[c]}
            /\ EnqueueReturn(c, "nil")
       ELSE /\ mu' = c
            /\ cpc' = [cpc EXCEPT ![c] = "select"]
            /\ timer' = 0
            /\ UNCHANGED <<queue, accepted, enqRet, cret, elapsed>>
    /\ UNCHANGED <<otherVars, cfgVars, running, closed, wg, processingTime, workerVars,
                   cop, cjob, cdeliv, nextJob, sent, done, lifecycle>>

\* Mutant of TimerFired: the timer fires after half the window.
TimerFiredEarly == timer >= WaitWindow - 1

\* Whether the timer case of the select is ready.
TimerFired == timer >= WaitWindow

\* case <-time.After(100 * time.Millisecond): return ErrQueueFull
EnqueueTimeout(c) ==
    /\ cpc[c] = "select"
    /\ TimerFired
    /\ EnqueueReturn(c, ErrQueueFull)
    /\ UNCHANGED <<otherVars, cfgVars, chanVars, wg, processingTime, workerVars,
                   cop, cjob, cdeliv, jobVars, lifecycle>>

\* case m.queue <- job: a worker's receive has moved the job into the
\* buffer; the caller logs and returns nil.
EnqueueSent(c) ==
    /\ cpc[c] = "sent"
    /\ accepted' = accepted \cup {cjob[c]}
    /\ EnqueueReturn(c, "nil")
    /\ UNCHANGED <<otherVars, cfgVars, chanVars, wg, processingTime, workerVars,
                   cop, cjob, cdeliv, nextJob, sent, done, lifecycle>>

\* ------------------------------------------------------------- Start, Stop
\* Mutant of AlreadyRunning: Start does not consult the running flag.
AlreadyRunningUnchecked == FALSE

\* if m.running { return }
AlreadyRunning == running

\* Mutant of StartMayLock: Start does not take the mutex.
StartIgnoresMutex == TRUE

\* m.mu.Lock() of Start succeeds when nobody holds the mutex.
StartMayLock == mu = 0

\* Start, from Lock to the deferred Unlock.  Workers of an earlier Start
\* that are still alive (they can only be waiting at the receive of the
\* closed, empty channel: see StaleOK) are counted in stale.
Start(c) ==
    /\ cpc[c] = "lock"
    /\ cop[c] = "Start"
    /\ StartMayLock
    /\ IF AlreadyRunning
       THEN UNCHANGED <<running, wg, wpc, stale, lifecycle>>
       ELSE /\ stale + Cardinality(LiveWorkers) <= MaxStale
            /\ running' = TRUE
            /\ wg' = wg + workerCount
            /\ stale' = stale + Cardinality(LiveWorkers)
            /\ wpc' = [w \in Workers |-> "recv"]
            /\ lifecycle' = "running"
    /\ cpc' = [cpc EXCEPT ![c] = "idle"]
    /\ cret' = [cret EXCEPT ![c] = "ok"]
    /\ UNCHANGED <<otherVars, cfgVars, closed, queue, mu, processingTime, wjob, werr,
                   cop, cjob, enqRet, cdeliv, elapsed, timer, jobVars>>

\* A worker of an earlier Start finds the channel closed and empty and
\* leaves its loop (deferred wg.Done).
StaleWorkerExit ==
    /\ stale > 0
    /\ closed
    /\ queue = <<>>
    /\ stale' = stale - 1
    /\ wg' = wg - 1
    /\ UNCHANGED <<otherVars, cfgVars, chanVars, mu, processingTime, wpc, wjob, werr,
                   cpc, cop, cjob, enqRet, cdeliv, cret, elapsed, timer,
                   jobVars, lifecycle>>

\* Mutant of AlreadyStopped: Stop does not consult the running flag.
AlreadyStoppedUnchecked == FALSE

\* if !m.running { return }
AlreadyStopped == ~running

\* Stop from Lock to wg.Wait().  close() of a closed channel panics, and
\* the deferred Unlock then releases the mutex.
StopLock(c) ==
    /\ cpc[c] = "lock"
    /\ cop[c] = "Stop"
    /\ mu = 0
    /\ IF AlreadyStopped
       THEN /\ cpc' = [cpc EXCEPT ![c] = "idle"]
            /\ cret' = [cret EXCEPT ![c] = "ok"]
            /\ UNCHANGED <<running, closed, mu, lifecycle>>
       ELSE /\ running' = FALSE
            /\ lifecycle' = "stopped"
            /\ IF closed
               THEN /\ cpc' = [cpc EXCEPT ![c] = "idle"]
                    /\ cret' = [cret EXCEPT ![c] = "panic"]
                    /\ UNCHANGED <<closed, mu>>
               ELSE /\ closed' = TRUE
                    /\ mu' = c
                    /\ cpc' = [cpc EXCEPT ![c] = "wait"]
                    /\ UNCHANGED cret
    /\ UNCHANGED <<otherVars, cfgVars, queue, wg, processingTime, workerVars,
                   cop, cjob, enqRet, cdeliv, elapsed, timer, jobVars>>

\* Mutant of WaitReturns: Stop does not wait for the workers.
WaitReturnsAtOnce == TRUE

\* Whether m.wg.Wait() returns.
WaitReturns == wg = 0

\* Stop from the return of wg.Wait() to the deferred Unlock.
StopReturn(c) ==
    /\ cpc[c] = "wait"
    /\ WaitReturns
    /\ mu' = 0
    /\ cpc' = [cpc EXCEPT ![c] = "idle"]
    /\ cret' = [cret EXCEPT ![c] = "ok"]
    /\ UNCHANGED <<otherVars, cfgVars, chanVars, wg, processingTime, workerVars,
                   cop, cjob, enqRet, cdeliv, elapsed, timer, jobVars,
                   lifecycle>>

\* ----------------------------------------------------------------- worker
\* Mutant of Dequeue: the received job stays in the buffer.
DequeueKeepsHead(q) == q

\* The buffer after a receive: the head is handed to exactly one receiver.
Dequeue(q) == Tail(q)

\* `for job := range m.queue`: receive the head of the buffer, or leave the
\* loop when the channel is closed and empty (deferred wg.Done).  A receive
\* from a full buffer on which Enqueue is blocked moves the blocked job into
\* the buffer in the same step, as the Go runtime does.
WorkerRecv(w) ==
    /\ wpc[w] = "recv"
    /\ IF queue # <<>>
       THEN /\ wjob' = [wjob EXCEPT ![w] = Head(queue)]
            /\ wpc' = [wpc EXCEPT ![w] = "send"]
            /\ IF \E c \in Callers : cpc[c] = "select"
               THEN LET c == CHOOSE d \in Callers : cpc[d] = "select"
                    IN /\ queue' = Push(Dequeue(queue), cjob[c])
                       /\ cpc' = [cpc EXCEPT ![c] = "sent"]
               ELSE /\ queue' = Dequeue(queue)
                    /\ UNCHANGED cpc
            /\ UNCHANGED wg
       ELSE /\ closed
            /\ wpc' = [wpc EXCEPT ![w] = "done"]
            /\ wg' = wg - 1
            /\ UNCHANGED <<queue, wjob, cpc>>
    /\ UNCHANGED <<otherVars, cfgVars, running, closed, mu, processingTime, stale, werr,
                   cop, cjob, enqRet, cdeliv, cret, elapsed, timer,
                   jobVars, lifecycle>>

\* err := m.baseMailer.Send(job...): one transport call for the pulled job.
WorkerSend(w) ==
    /\ wpc[w] = "send"
    /\ \E r \in SendResults : werr' = [werr EXCEPT ![w] = r]
    /\ sent' = [sent EXCEPT ![wjob[w]] = @ + 1]
    /\ wpc' = [wpc EXCEPT ![w] = "lock"]
    /\ UNCHANGED <<otherVars, cfgVars, chanVars, mu, wg, processingTime, stale, wjob,
                   cpc, cop, cjob, enqRet, cdeliv, cret, elapsed, timer,
                   nextJob, accepted, done, lifecycle>>

\* Whether the worker's m.mu.Lock() succeeds.
WorkerMayLock == mu = 0

\* m.mu.Lock(); m.processingTime = ...; m.mu.Unlock(); then the outcome is
\* logged and the loop continues.
WorkerRecord(w) ==
    /\ wpc[w] = "lock"
    /\ WorkerMayLock
    /\ \E d \in Durations : processingTime' = d
    /\ done' = done \cup {wjob[w]}
    /\ wpc' = [wpc EXCEPT ![w] = WorkerAfterDelivery(werr[w])]
    /\ wg' = IF WorkerAfterDelivery(werr[w]) = "done" THEN wg - 1 ELSE wg
    /\ wjob' = [wjob EXCEPT ![w] = 0]
    /\ werr' = [werr EXCEPT ![w] = "nil"]
    /\ UNCHANGED <<otherVars, cfgVars, chanVars, mu, stale, cpc, cop, cjob, enqRet,
                   cdeliv, cret, elapsed, timer, nextJob, accepted, sent,
                   lifecycle>>

\* ------------------------------------------------------------------- time
\* A caller that can take its next step without waiting for anything.
Runnable(c) ==
    \/ cpc[c] = "lock" /\ mu = 0
    \/ cpc[c] = "sent"
    \/ cpc[c] = "select" /\ TimerFired
    \/ cpc[c] = "wait" /\ WaitReturns

\* A worker that can take its next step without waiting for anything.  A
\* worker inside baseMailer.Send is not: a delivery takes time (network
\* round trips, retry sleeps).
WorkerRunnable(w) ==
    \/ wpc[w] = "recv" /\ (queue # <<>> \/ closed)
    \/ wpc[w] = "lock" /\ WorkerMayLock

\* One tick passes.  Time advances only while every goroutine is blocked or
\* inside a transport call, so that elapsed counts waiting, not scheduling
\* delay.
Tick ==
    /\ \E c \in Callers : IsAsync(c) /\ cpc[c] \in {"lock", "select"}
    /\ \A c \in Callers : ~Runnable(c)
    /\ \A w \in Workers : ~WorkerRunnable(w)
    /\ ~(stale > 0 /\ closed /\ queue = <<>>)
    /\ timer' = IF \E c \in Callers : cpc[c] = "select"
                THEN Min(timer + 1, WaitWindow) ELSE timer
    /\ elapsed' = [c \in Callers |->
                     IF IsAsync(c) /\ cpc[c] \in {"lock", "select"}
                     THEN Min(elapsed[c] + 1, MaxElapsed) ELSE elapsed[c]]
    /\ UNCHANGED <<otherVars, cfgVars, chanVars, mu, wg, processingTime, workerVars,
                   cpc, cop, cjob, enqRet, cdeliv, cret, jobVars,
                   lifecycle>>

\* ---------------------------------------------------------- specification
Next ==
    \/ \E c \in Callers : InvokeStart(c)
    \/ \E c \in Callers : InvokeStop(c)
    \/ \E c \in Callers : InvokeSend(c)
    \/ \E c \in Callers : \E mode \in DeliveryModes : InvokeSendWithOptions(c, mode)
    \/ \E c \in Callers : SyncSendDone(c)
    \/ \E c \in Callers : EnqueueLock(c)
    \/ \E c \in Callers : EnqueueTimeout(c)
    \/ \E c \in Callers : EnqueueSent(c)
    \/ \E c \in Callers : Start(c)
    \/ \E c \in Callers : StopLock(c)
    \/ \E c \in Callers : StopReturn(c)
    \/ \E w \in Workers : WorkerRecv(w)
    \/ \E w \in Workers : WorkerSend(w)
    \/ \E w \in Workers : WorkerRecord(w)
    \/ StaleWorkerExit
    \/ Tick

Spec == Init /\ [][Next]_vars

\* Fair scheduling: every goroutine that can run eventually runs, the Go
\* mutex hands the lock to every waiter in turn (strong fairness on the
\* steps that acquire m.mu), and time passes.  Nothing obliges the
\* environment to make further calls.
Fairness ==
    /\ WF_vars(Tick)
    /\ \A c \in Callers :
          /\ SF_vars(EnqueueLock(c))
          /\ SF_vars(Start(c))
          /\ SF_vars(StopLock(c))
          /\ WF_vars(EnqueueTimeout(c))
          /\ WF_vars(EnqueueSent(c))
          /\ WF_vars(StopReturn(c))
          /\ WF_vars(SyncSendDone(c))
    /\ \A w \in 0..(DefaultWorkerCount + MaxWorkerArg) :
          /\ WF_vars(w \in Workers /\ WorkerRecv(w))
          /\ WF_vars(w \in Workers /\ WorkerSend(w))
          /\ SF_vars(w \in Workers /\ WorkerRecord(w))
    /\ WF_vars(StaleWorkerExit)

FairSpec == Spec /\ Fairness

\* ------------------------------------------------- one call of a transport
\* The three transports of the repository: SmtpMailer.Send built on
\* smtp.SendMail, SmtpMailer.Send built on sendMailWithTLS with the retry
\* loop, and HttpMailer.SendWithOptions built on sendHTTPRequest.
TransportKinds == {"SmtpSendMail", "SmtpTLS", "Http"}

\* The transports whose Send has the loop over maxRetries attempts.
RetryKinds == {"SmtpTLS", "Http"}

\* The outcomes of the network primitive, one per attempt.
Networks == [1..maxRetries -> BOOLEAN]

\* Send is called: the template (whether it parses, whether its body
\* renders), the sandbox flag and the network's behaviour are the inputs.
TCall ==
    /\ transport.pc = "idle"
    /\ \E kind \in TransportKinds, parseOk \in BOOLEAN, bodyOk \in BOOLEAN,
          sandbox \in BOOLEAN, net \in Networks :
          transport' = [pc |-> "parse", kind |-> kind, parseOk |-> parseOk,
                        bodyOk |-> bodyOk, sandbox |-> sandbox, net |-> net,
                        attempt |-> 0, attempts |-> 0, sleeps |-> 0,
                        lastErr |-> 0, err |-> "none", wraps |-> 0]
    /\ UNCHANGED <<queueVars, exceptTransport>>

\* Send returns err; wraps is the attempt whose error err wraps (0: none).
TReturn(err, wraps) ==
    [transport EXCEPT !.pc = "returned", !.err = err, !.wraps = wraps]

TGoto(pc) == [transport EXCEPT !.pc = pc]

\* Mutant of ParseFailed: the error of template.ParseFS is ignored.
ParseFailureIgnored == FALSE

\* t, err := template.ParseFS(FS, templatePath); if err != nil
ParseFailed == ~transport.parseOk

TParse ==
    /\ transport.pc = "parse"
    /\ transport' = IF ParseFailed THEN TReturn("ErrParse", 0)
                                    ELSE TGoto("execute")
    /\ UNCHANGED <<queueVars, exceptTransport>>

\* if err := t.ExecuteTemplate(&body, "body", data); err != nil
ExecuteFailed == ~transport.bodyOk

\* The body is rendered; the subject and the headers that follow cannot
\* fail (a subject block that does not render is replaced by the fallback).
TExecute ==
    /\ transport.pc = "execute"
    /\ transport' = IF ExecuteFailed THEN TReturn("ErrExecute", 0)
                                      ELSE TGoto("sandbox")
    /\ UNCHANGED <<queueVars, exceptTransport>>

\* Mutant of SandboxShortCircuit: the sandbox flag is not consulted.
SandboxIgnored == FALSE

\* if isSandBox { log...; return nil }
SandboxShortCircuit == transport.sandbox

TSandbox ==
    /\ transport.pc = "sandbox"
    /\ transport' = IF SandboxShortCircuit
                     THEN TReturn("nil", 0)
                     ELSE [transport EXCEPT !.pc = "attempt", !.attempt = 1]
    /\ UNCHANGED <<queueVars, exceptTransport>>

\* Mutant of LoopContinues: the loop stops one attempt short.
LoopContinuesShort == transport.attempt < maxRetries

\* for attempt := 1; attempt <= maxRetries; attempt++
LoopContinues == transport.attempt <= maxRetries

\* Mutant of SleepsAfterFailure: a sleep follows every failed attempt.
SleepsAfterEveryFailure == TRUE

\* if attempt < maxRetries { time.Sleep(retryDelay) }
SleepsAfterFailure == transport.attempt < maxRetries

\* One evaluation of the loop condition and, if it holds, one call of the
\* network primitive.  The transport built on smtp.SendMail has no loop: it
\* calls the primitive once and returns its result.
TAttempt ==
    /\ transport.pc = "attempt"
    /\ transport' =
          IF transport.kind \notin RetryKinds
          THEN [TReturn(IF transport.net[1] THEN "nil" ELSE "ErrSend",
                        IF transport.net[1] THEN 0 ELSE 1)
                   EXCEPT !.attempts = @ + 1]
          ELSE IF ~LoopContinues
          THEN TReturn("ErrSend", transport.lastErr)
          ELSE IF transport.net[transport.attempt]
          THEN [TReturn("nil", 0) EXCEPT !.attempts = @ + 1]
          ELSE IF SleepsAfterFailure
          THEN [transport EXCEPT !.attempts = @ + 1,
                                 !.lastErr = transport.attempt,
                                 !.pc = "sleep"]
          ELSE [transport EXCEPT !.attempts = @ + 1,
                                 !.lastErr = transport.attempt,
                                 !.attempt = @ + 1]
    /\ UNCHANGED <<queueVars, exceptTransport>>

\* time.Sleep(retryDelay) returns and the loop goes to its next round.
TSleep ==
    /\ transport.pc = "sleep"
    /\ transport' = [transport EXCEPT !.sleeps = @ + 1, !.attempt = @ + 1,
                                      !.pc = "attempt"]
    /\ UNCHANGED <<queueVars, exceptTransport>>

\* The call has returned; the transport can be called again.
TDone ==
    /\ transport.pc = "returned"
    /\ transport' = TransportIdle
    /\ UNCHANGED <<queueVars, exceptTransport>>

TransportNext ==
    \/ TCall
    \/ TParse
    \/ TExecute
    \/ TSandbox
    \/ TAttempt
    \/ TSleep
    \/ TDone

TransportSpec == Init /\ [][TransportNext]_vars

\* ------------------------------------------------------- the host process
\* main of cmd/api: boot, Start of the mail queue, the HTTP server, exit.
\* Caller Main is the main goroutine; the other callers are HTTP handlers.
Main == 1
Handlers == Callers \ {Main}

\* How main can leave its boot phase (before the mailer is created): the
\* .env file is missing (log.Fatal), the database is unreachable
\* (logger.Panic), the R2 client or the migrations fail (logger.Fatal), the
\* process was started only to migrate (return), or boot succeeds.
BootOutcomes == {"env_fatal", "db_panic", "r2_fatal", "migrate_fatal",
                 "migrate_only", "ok"}

\* How app.run returns: ListenAndServe fails, or a signal arrives and
\* server.Shutdown returns an error or nil.
RunOutcomes == {"listen_error", "shutdown_error", "nil"}

\* The deferred calls that run when main ends: all of them, last first, on
\* a return or a panic; none when the process ends by os.Exit, which is
\* what log.Fatal and zap's Fatal call.
RECURSIVE Reverse(_)
Reverse(q) == IF q = <<>> THEN <<>> ELSE Append(Reverse(Tail(q)), Head(q))

DeferredRun(how, deferred) ==
    IF how = "os.Exit" THEN <<>> ELSE Reverse(deferred)

\* The number of calls of f in a sequence of calls.
Count(f, q) == Cardinality({i \in 1..Len(q) : q[i] = f})

\* The process ends.
HostExit(how) ==
    [host EXCEPT !.pc = "exited", !.exit = how,
                 !.stops = @ + Count("mailer.Stop", DeferredRun(how, host.deferred))]

HostInit ==
    /\ QueueInit
    /\ OthersIdle({"host"})
    /\ host = [pc |-> "boot", starts |-> 0, stops |-> 0, deferred |-> <<>>,
               exit |-> "none", result |-> "none"]

\* The process is running.
HostAlive == host.pc \notin {"none", "exited"}

\* main from its first line to the construction of the mailer.
HostBoot ==
    /\ host.pc = "boot"
    /\ \E o \in BootOutcomes :
          host' =
            CASE o = "env_fatal" -> HostExit("os.Exit")
              [] o = "db_panic" ->
                    [HostExit("panic") EXCEPT !.deferred = <<"logger.Sync">>]
              [] o \in {"r2_fatal", "migrate_fatal"} ->
                    [HostExit("os.Exit")
                        EXCEPT !.deferred = <<"logger.Sync", "db.Close">>]
              [] o = "migrate_only" ->
                    [HostExit("return")
                        EXCEPT !.deferred = <<"logger.Sync", "db.Close">>]
              [] OTHER ->
                    [host EXCEPT !.pc = "mailer",
                                 !.deferred = <<"logger.Sync", "db.Close">>]
    /\ UNCHANGED <<queueVars, exceptHost>>

\* inMemoryMailer.Start() has returned; defer inMemoryMailer.Stop().
HostDeferStop ==
    /\ host.pc = "mailer"
    /\ cop[Main] = "Start" /\ cpc[Main] = "idle"
    /\ host' = [host EXCEPT !.pc = "scheduler", !.starts = @ + 1,
                            !.deferred = Append(@, "mailer.Stop")]
    /\ UNCHANGED <<queueVars, exceptHost>>

\* cron.NewScheduler, which ends the process by logger.Fatalf when the
\* scheduler cannot be created; defer scheduler.Stop(); app.mount().
HostScheduler ==
    /\ host.pc = "scheduler"
    /\ \E ok \in BOOLEAN :
          host' = IF ok
                  THEN [host EXCEPT !.pc = "serving",
                                    !.deferred = Append(@, "scheduler.Stop")]
                  ELSE HostExit("os.Exit")
    /\ UNCHANGED <<queueVars, exceptHost>>

\* app.run(mux) returns.
HostRunReturns ==
    /\ host.pc = "serving"
    /\ \E r \in RunOutcomes : host' = [host EXCEPT !.pc = "fatal", !.result = r]
    /\ UNCHANGED <<queueVars, exceptHost>>

\* logger.Fatal(app.run(mux)): the last statement of main.
HostFatal ==
    /\ host.pc = "fatal"
    /\ host' = HostExit("os.Exit")
    /\ UNCHANGED <<queueVars, exceptHost>>

\* The host with its mail queue: main calls Start, the handlers send mail
\* while the server serves, the workers run as long as the process lives.
HostNext ==
    \/ HostBoot
    \/ host.pc = "mailer" /\ cop[Main] = "none" /\ InvokeStart(Main)
    \/ host.pc = "mailer" /\ Start(Main)
    \/ HostDeferStop
    \/ HostScheduler
    \/ \E c \in Handlers : host.pc = "serving" /\ InvokeSend(c)
    \/ \E c \in Handlers : \E mode \in DeliveryModes :
          host.pc = "serving" /\ InvokeSendWithOptions(c, mode)
    \/ \E c \in Handlers : HostAlive /\ SyncSendDone(c)
    \/ \E c \in Handlers : HostAlive /\ EnqueueLock(c)
    \/ \E c \in Handlers : HostAlive /\ EnqueueTimeout(c)
    \/ \E c \in Handlers : HostAlive /\ EnqueueSent(c)
    \/ \E w \in Workers : HostAlive /\ WorkerRecv(w)
    \/ \E w \in Workers : HostAlive /\ WorkerSend(w)
    \/ \E w \in Workers : HostAlive /\ WorkerRecord(w)
    \/ HostAlive /\ Tick
    \/ HostRunReturns
    \/ HostFatal

HostSpec == HostInit /\ [][HostNext]_vars

\* ------------------------------------------------- the facade, per mode
\* Main starts and stops the queue; every handler picks one delivery mode
\* and passes it to each of its calls of SendWithOptions.
FChoose(c, mode) ==
    /\ facade[c] = "none"
    /\ cpc[c] = "idle"
    /\ facade' = [facade EXCEPT ![c] = mode]
    /\ UNCHANGED <<queueVars, exceptFacade>>

FacadeNext ==
    \/ \E c \in Handlers : \E mode \in DeliveryModes : FChoose(c, mode)
    \/ \E c \in Handlers :
          facade[c] # "none" /\ InvokeSendWithOptions(c, facade[c])
    \/ InvokeStart(Main)
    \/ InvokeStop(Main)
    \/ Start(Main)
    \/ StopLock(Main)
    \/ StopReturn(Main)
    \/ \E c \in Handlers : SyncSendDone(c)
    \/ \E c \in Handlers : EnqueueLock(c)
    \/ \E c \in Handlers : EnqueueTimeout(c)
    \/ \E c \in Handlers : EnqueueSent(c)
    \/ \E w \in Workers : WorkerRecv(w)
    \/ \E w \in Workers : WorkerSend(w)
    \/ \E w \in Workers : WorkerRecord(w)
    \/ StaleWorkerExit
    \/ Tick

FacadeSpec == Init /\ [][FacadeNext]_vars

\* ------------------------------------------- the queue, with its history
\* The queue with a buffer for one job or for more, and a record of the order
\* in which jobs entered the buffer, were accepted (Enqueue returned nil),
\* were pulled by a worker and were passed to the transport.  The record is
\* brought up to date after every step of the queue, before the next one.
FifoQueueArg == 2

Range(q) == {q[i] : i \in 1..Len(q)}

IsPrefix(p, q) == Len(p) <= Len(q) /\ \A i \in 1..Len(p) : p[i] = q[i]

FifoInit ==
    /\ QueueInitWith(WorkerArgs, {MaxQueueArg, FifoQueueArg})
    /\ OthersIdle({"fifo"})
    /\ fifo = [on |-> TRUE, entered |-> <<>>, returned |-> <<>>,
               pulled |-> <<>>, sent |-> <<>>,
               pulledBy |-> [w \in Workers |-> <<>>],
               sentBy |-> [w \in Workers |-> <<>>]]

\* What the last step did and the record does not show yet.
NewEntered == Range(queue) \ Range(fifo.entered)
NewReturned == accepted \ Range(fifo.returned)
NewPulled == {w \in Workers : wjob[w] # 0 /\ wjob[w] \notin Range(fifo.pulled)}
NewSent == {w \in Workers : wjob[w] # 0 /\ sent[wjob[w]] >= 1
                                       /\ wjob[w] \notin Range(fifo.sent)}
Pending ==
    NewEntered # {} \/ NewReturned # {} \/ NewPulled # {} \/ NewSent # {}

FObserve ==
    /\ fifo.on
    /\ Pending
    /\ LET IsNew(j) == j \in NewEntered
           pw == IF NewPulled # {} THEN {CHOOSE w \in NewPulled : TRUE} ELSE {}
           sw == IF NewSent # {} THEN {CHOOSE w \in NewSent : TRUE} ELSE {}
           rj == IF NewReturned # {} THEN <<CHOOSE j \in NewReturned : TRUE>>
                 ELSE <<>>
           Add(w, set) == IF w \in set THEN <<wjob[w]>> ELSE <<>>
           All(set) == IF set = {} THEN <<>>
                       ELSE <<wjob[CHOOSE w \in set : TRUE]>>
       IN fifo' = [on |-> TRUE,
                   entered |-> fifo.entered \o SelectSeq(queue, IsNew),
                   returned |-> fifo.returned \o rj,
                   pulled |-> fifo.pulled \o All(pw),
                   sent |-> fifo.sent \o All(sw),
                   pulledBy |-> [w \in Workers |->
                                   fifo.pulledBy[w] \o Add(w, pw)],
                   sentBy |-> [w \in Workers |->
                                 fifo.sentBy[w] \o Add(w, sw)]]
    /\ UNCHANGED <<queueVars, exceptFifo>>

FifoNext ==
    \/ FObserve
    \/ ~Pending /\ \E c \in Callers : InvokeStart(c)
    \/ ~Pending /\ \E c \in Callers : InvokeStop(c)
    \/ ~Pending /\ \E c \in Callers : InvokeSend(c)
    \/ ~Pending /\ \E c \in Callers : EnqueueLock(c)
    \/ ~Pending /\ \E c \in Callers : EnqueueTimeout(c)
    \/ ~Pending /\ \E c \in Callers : EnqueueSent(c)
    \/ ~Pending /\ \E c \in Callers : Start(c)
    \/ ~Pending /\ \E c \in Callers : StopLock(c)
    \/ ~Pending /\ \E c \in Callers : StopReturn(c)
    \/ ~Pending /\ \E w \in Workers : WorkerRecv(w)
    \/ ~Pending /\ \E w \in Workers : WorkerSend(w)
    \/ ~Pending /\ \E w \in Workers : WorkerRecord(w)
    \/ ~Pending /\ StaleWorkerExit
    \/ ~Pending /\ Tick

FifoSpec == FifoInit /\ [][FifoNext]_vars

\* ------------------------------------------------- one HTTP-API attempt
\* HttpMailer.sendHTTPRequest, statement by statement.  A response body is
\* either not JSON or a JSON object; fields it leaves out get Go's zero
\* values ("" and false) from json.Unmarshal.
Statuses == {199, 200, 299, 300, 404, 500}
Texts == {"", "text"}
Bodies ==
    {[json |-> FALSE, raw |-> "garbage"]} \cup
    {[json |-> TRUE, success |-> b, error |-> e, message |-> m] :
        b \in BOOLEAN, e \in Texts, m \in Texts}

\* json.Unmarshal(body, &plunkResp)
Unmarshal(body) ==
    IF body.json
    THEN [ok |-> TRUE, Success |-> body.success, Error |-> body.error,
          Message |-> body.message]
    ELSE [ok |-> FALSE, Success |-> FALSE, Error |-> "", Message |-> ""]

\* Mutant of Is2xx: 300 counts as a success status.
Is2xxInclusive(status) == status >= 200 /\ status <= 300

\* resp.StatusCode >= 200 && resp.StatusCode < 300
Is2xx(status) == status >= 200 /\ status < 300

\* A message without the response, and one that quotes the status and the
\* body of the response.
Plain(text) == [text |-> text, raw |-> FALSE]
Quoting(text) == [text |-> text, raw |-> TRUE]

\* The message of the error for a parsed response: the Error field, else
\* the Message field, else "HTTP <status>: <body>".
ErrorMsg(resp) ==
    IF resp.Error # "" THEN Plain(resp.Error)
    ELSE IF resp.Message # "" THEN Plain(resp.Message)
    ELSE Quoting("HTTP")

\* What sendHTTPRequest returns once the body has been read.
HttpResult(status, body) ==
    LET resp == Unmarshal(body)
    IN IF ~resp.ok
       THEN IF Is2xx(status)
            THEN [err |-> "nil", msg |-> Plain("")]
            ELSE [err |-> "failed to parse response", msg |-> Quoting("")]
       ELSE IF Is2xx(status) /\ resp.Success
            THEN [err |-> "nil", msg |-> Plain("")]
            ELSE [err |-> "API request failed", msg |-> ErrorMsg(resp)]

HttpAttemptInit ==
    /\ QueueInit
    /\ OthersIdle({"transport"})
    /\ transport = [pc |-> "http_marshal"]

HttpFail(err) ==
    transport' = [pc |-> "http_returned", read |-> FALSE, err |-> err,
                  msg |-> Plain("")]

\* json.Marshal(request)
HttpMarshal ==
    /\ transport.pc = "http_marshal"
    /\ \E ok \in BOOLEAN :
          IF ok THEN transport' = [pc |-> "http_request"]
          ELSE HttpFail("failed to marshal request")
    /\ UNCHANGED <<queueVars, exceptTransport>>

\* http.NewRequest("POST", apiURL, body)
HttpNewRequest ==
    /\ transport.pc = "http_request"
    /\ \E ok \in BOOLEAN :
          IF ok THEN transport' = [pc |-> "http_do"]
          ELSE HttpFail("failed to create HTTP request")
    /\ UNCHANGED <<queueVars, exceptTransport>>

\* httpClient.Do(req): an error, or a response with a status.
HttpDo ==
    /\ transport.pc = "http_do"
    /\ \/ HttpFail("failed to send HTTP request")
       \/ \E st \in Statuses : transport' = [pc |-> "http_read", status |-> st]
    /\ UNCHANGED <<queueVars, exceptTransport>>

\* io.ReadAll(resp.Body)
HttpReadAll ==
    /\ transport.pc = "http_read"
    /\ \/ HttpFail("failed to read response body")
       \/ \E b \in Bodies :
             transport' = [pc |-> "http_parse", status |-> transport.status,
                           body |-> b]
    /\ UNCHANGED <<queueVars, exceptTransport>>

\* From json.Unmarshal to the return.
HttpParse ==
    /\ transport.pc = "http_parse"
    /\ LET r == HttpResult(transport.status, transport.body)
       IN transport' = [pc |-> "http_returned", read |-> TRUE,
                        status |-> transport.status, body |-> transport.body,
                        err |-> r.err, msg |-> r.msg]
    /\ UNCHANGED <<queueVars, exceptTransport>>

HttpAttemptNext ==
    \/ HttpMarshal
    \/ HttpNewRequest
    \/ HttpDo
    \/ HttpReadAll
    \/ HttpParse

HttpAttemptSpec == HttpAttemptInit /\ [][HttpAttemptNext]_vars

\* ------------------------------------------------ the choice of subject
\* The subject block of Send and SendWithOptions.  A string is a sequence
\* of characters, of which " " is white space.
MaxSubjectLen == 3

Chars == {" ", "a"}
Strings == UNION {[1..n -> Chars] : n \in 0..MaxSubjectLen}
CallerSubjects == {<<>>, <<" ">>, <<"a">>, <<" ", "a">>}
Usernames == {"ann"}

\* A template without a subject block, with one whose execution fails, and
\* with one that renders a string.
SubjectBlocks ==
    {[defined |-> FALSE, ok |-> FALSE, text |-> <<>>],
     [defined |-> TRUE, ok |-> FALSE, text |-> <<>>]} \cup
    {[defined |-> TRUE, ok |-> TRUE, text |-> t] : t \in Strings}

RECURSIVE TrimLeft(_)
TrimLeft(str) ==
    IF str # <<>> /\ Head(str) = " " THEN TrimLeft(Tail(str)) ELSE str

RECURSIVE TrimRight(_)
TrimRight(str) ==
    IF str # <<>> /\ str[Len(str)] = " "
    THEN TrimRight(SubSeq(str, 1, Len(str) - 1)) ELSE str

\* strings.TrimSpace
TrimSpace(str) == TrimRight(TrimLeft(str))

\* fmt.Sprintf("Message for %s", username)
FallbackSubject(username) == <<"Message for ", username>>

\* t.ExecuteTemplate(&subjectBuf, "subject", data): an error if the
\* template has no such block or the block fails on the data.
ExecuteSubject(block) ==
    IF block.defined /\ block.ok
    THEN [err |-> FALSE, out |-> block.text]
    ELSE [err |-> TRUE, out |-> <<>>]

\* Mutant of SubjectMissing: a subject of white space counts as empty.
SubjectBlank(subject) == TrimSpace(subject) = <<>>

\* if subject == ""
SubjectMissing(subject) == subject = <<>>

SubjectInit ==
    /\ QueueInit
    /\ OthersIdle({"transport"})
    /\ \E sub \in CallerSubjects : \E b \in SubjectBlocks :
       \E u \in Usernames :
          transport = [pc |-> "subject", arg |-> sub, block |-> b,
                       username |-> u, subject |-> sub]

\* if subject == "" { ... }: a subject that is given is left as it is.
SubjectTest ==
    /\ transport.pc = "subject"
    /\ transport' = [transport EXCEPT
                       !.pc = IF SubjectMissing(transport.subject)
                              THEN "subject_execute" ELSE "subject_chosen"]
    /\ UNCHANGED <<queueVars, exceptTransport>>

\* The body of the if: the trimmed rendering, or the fallback on error.
SubjectExecute ==
    /\ transport.pc = "subject_execute"
    /\ LET r == ExecuteSubject(transport.block)
       IN transport' = [transport EXCEPT
                          !.pc = "subject_chosen",
                          !.subject = IF ~r.err THEN TrimSpace(r.out)
                                      ELSE FallbackSubject(transport.username)]
    /\ UNCHANGED <<queueVars, exceptTransport>>

SubjectNext ==
    \/ SubjectTest
    \/ SubjectExecute

SubjectSpec == SubjectInit /\ [][SubjectNext]_vars

\* --------------------------------------------- one registration request
\* registerUserHandler serving one request on the goroutine Registrant,
\* while main starts and stops the queue and sends mail of its own.
Registrant == Main + 1

HandlerInit ==
    /\ QueueInit
    /\ OthersIdle({"handler"})
    /\ handler = [pc |-> "read", user |-> FALSE, token |-> FALSE,
                  resp |-> "none", mailErr |-> "none", delivery |-> "none"]

\* The handler writes a response and returns.
HReply(status) ==
    handler' = [handler EXCEPT !.pc = "done", !.resp = status]

HGoto(pc) == handler' = [handler EXCEPT !.pc = pc]

\* readJSON: a malformed body gets 400.
HRead ==
    /\ handler.pc = "read"
    /\ \E ok \in BOOLEAN : IF ok THEN HGoto("validate") ELSE HReply("400")
    /\ UNCHANGED <<queueVars, exceptHandler>>

\* validatePayload writes the 400 itself.
HValidate ==
    /\ handler.pc = "validate"
    /\ \E ok \in BOOLEAN : IF ok THEN HGoto("otp") ELSE HReply("400")
    /\ UNCHANGED <<queueVars, exceptHandler>>

HOtp ==
    /\ handler.pc = "otp"
    /\ \E ok \in BOOLEAN : IF ok THEN HGoto("hash") ELSE HReply("500")
    /\ UNCHANGED <<queueVars, exceptHandler>>

HHash ==
    /\ handler.pc = "hash"
    /\ \E ok \in BOOLEAN : IF ok THEN HGoto("create") ELSE HReply("500")
    /\ UNCHANGED <<queueVars, exceptHandler>>

CreateOutcomes == {"ok", "ErrDuplicateEmail", "ErrDuplicateUsername", "error"}

\* CreateUserTx: on success the user record exists.
HCreate ==
    /\ handler.pc = "create"
    /\ \E r \in CreateOutcomes :
          CASE r = "ok" ->
                 handler' = [handler EXCEPT !.pc = "mail", !.user = TRUE]
            [] r = "error" -> HReply("500")
            [] OTHER -> HReply("400")
    /\ UNCHANGED <<queueVars, exceptHandler>>

\* app.mailer.SendWithOptions(..., mailer.AsyncInMemory, !isProdEnv)
HMailCall ==
    /\ handler.pc = "mail"
    /\ cop[Registrant] = "none"
    /\ InvokeSendWithOptions(Registrant, AsyncInMemory)

\* Mutant of MailFailed: the error of SendWithOptions is not looked at.
MailFailureIgnored(err) == FALSE

\* if err != nil
MailFailed(err) == err # "nil"

\* SendWithOptions has returned.  A panic inside it (a send on the closed
\* channel) unwinds the handler: net/http recovers it and closes the
\* connection, no response is written and nothing is rolled back.
HMailReturned ==
    /\ handler.pc = "mail"
    /\ cop[Registrant] = "Enqueue"
    /\ cpc[Registrant] = "idle"
    /\ handler' = [handler EXCEPT
                     !.mailErr = cret[Registrant],
                     !.pc = IF cret[Registrant] = "panic" THEN "done"
                            ELSE IF MailFailed(cret[Registrant])
                            THEN "rollback" ELSE "token",
                     !.resp = IF cret[Registrant] = "panic" THEN "aborted"
                              ELSE @]
    /\ UNCHANGED <<queueVars, exceptHandler>>

\* Users.Delete: its error is logged only; then internalServerError.
HRollback ==
    /\ handler.pc = "rollback"
    /\ \E deleted \in BOOLEAN :
          handler' = [handler EXCEPT !.pc = "done", !.resp = "500",
                                     !.user = IF deleted THEN FALSE ELSE @]
    /\ UNCHANGED <<queueVars, exceptHandler>>

HToken ==
    /\ handler.pc = "token"
    /\ \E ok \in BOOLEAN : IF ok THEN HGoto("respond") ELSE HReply("500")
    /\ UNCHANGED <<queueVars, exceptHandler>>

\* writeJSON(writer, 200, "User created", {user, token})
HRespond ==
    /\ handler.pc = "respond"
    /\ \E ok \in BOOLEAN :
          IF ok
          THEN handler' = [handler EXCEPT !.pc = "done", !.resp = "200",
                                          !.token = TRUE]
          ELSE HReply("500")
    /\ UNCHANGED <<queueVars, exceptHandler>>

\* The worker that has just come back from baseMailer.Send for the
\* welcome mail, its result not yet noted.
Delivering ==
    {w \in Workers : /\ cjob[Registrant] # 0
                     /\ wjob[w] = cjob[Registrant]
                     /\ wpc[w] = "lock"
                     /\ handler.delivery = "none"}

\* The worker's log line: what baseMailer.Send returned for the welcome mail.
HObserve ==
    /\ handler.pc # "none"
    /\ \E w \in Delivering :
          handler' = [handler EXCEPT !.delivery = werr[w]]
    /\ UNCHANGED <<queueVars, exceptHandler>>

HandlerNext ==
    \/ HObserve
    \/ Delivering = {} /\ HRead
    \/ Delivering = {} /\ HValidate
    \/ Delivering = {} /\ HOtp
    \/ Delivering = {} /\ HHash
    \/ Delivering = {} /\ HCreate
    \/ Delivering = {} /\ HMailCall
    \/ Delivering = {} /\ HMailReturned
    \/ Delivering = {} /\ HRollback
    \/ Delivering = {} /\ HToken
    \/ Delivering = {} /\ HRespond
    \/ Delivering = {} /\ InvokeStart(Main)
    \/ Delivering = {} /\ InvokeStop(Main)
    \/ Delivering = {} /\ InvokeSend(Main)
    \/ Delivering = {} /\ Start(Main)
    \/ Delivering = {} /\ StopLock(Main)
    \/ Delivering = {} /\ StopReturn(Main)
    \/ Delivering = {} /\ \E c \in {Main, Registrant} : EnqueueLock(c)
    \/ Delivering = {} /\ \E c \in {Main, Registrant} : EnqueueTimeout(c)
    \/ Delivering = {} /\ \E c \in {Main, Registrant} : EnqueueSent(c)
    \/ Delivering = {} /\ \E w \in Workers : WorkerRecv(w)
    \/ Delivering = {} /\ \E w \in Workers : WorkerSend(w)
    \/ Delivering = {} /\ \E w \in Workers : WorkerRecord(w)
    \/ Delivering = {} /\ StaleWorkerExit
    \/ Delivering = {} /\ Tick

HandlerSpec == HandlerInit /\ [][HandlerNext]_vars

\* ------------------------------------------- SMTP delivery with its steps
\* SmtpMailer.Send from the retry loop on, with sendMailWithTLS step by
\* step.  The inputs are whether the server advertises STARTTLS and whether
\* a user name and a password are configured; every step can fail.
SmtpSteps ==
    <<"dial", "hello", "starttls", "auth", "mail", "rcpt", "data", "write",
      "close", "quit">>

SmtpInit ==
    /\ QueueInit
    /\ OthersIdle({"transport"})
    /\ \E tls \in BOOLEAN, user \in BOOLEAN, pass \in BOOLEAN :
          transport = [pc |-> "smtp_loop", starttls |-> tls, user |-> user,
                       pass |-> pass, attempt |-> 1, steps |-> <<>>,
                       failed |-> FALSE, handed |-> 0, sleeps |-> 0,
                       lastErr |-> "nil", err |-> "none"]

\* Mutant of NeedsAuth: AUTH is sent whatever the credentials are.
NeedsAuthAlways == TRUE

\* if s.mailUsername != "" && s.mailPassword != ""
NeedsAuth == transport.user /\ transport.pass

\* if ok, _ := client.Extension("STARTTLS"); ok
NeedsStartTLS == transport.starttls

\* The step that follows AUTH's place, and the one that follows each step
\* that succeeded ("return" after QUIT).
AfterStartTLS == IF NeedsAuth THEN "auth" ELSE "mail"
AfterStep(step) ==
    CASE step = "dial" -> "hello"
      [] step = "hello" -> IF NeedsStartTLS THEN "starttls" ELSE AfterStartTLS
      [] step = "starttls" -> AfterStartTLS
      [] step = "auth" -> "mail"
      [] step = "mail" -> "rcpt"
      [] step = "rcpt" -> "data"
      [] step = "data" -> "write"
      [] step = "write" -> "close"
      [] step = "close" -> "quit"
      [] step = "quit" -> "return"

\* for attempt := 1; attempt <= s.maxRetries; attempt++: the next attempt
\* begins with the dial, or the loop ends with the wrapped last error.
SmtpLoop ==
    /\ transport.pc = "smtp_loop"
    /\ transport' =
          IF LoopContinues
          THEN [transport EXCEPT !.pc = "dial", !.steps = <<>>,
                                 !.failed = FALSE]
          ELSE [transport EXCEPT !.pc = "smtp_returned",
                                 !.err = "failed to send email after attempts"]
    /\ UNCHANGED <<queueVars, exceptTransport>>

\* One step of sendMailWithTLS: it fails and the function returns the
\* step's error, or it succeeds and the next step follows.  The message
\* is the server's once the data writer is closed without error.
SmtpStep(step) ==
    /\ transport.pc = step
    /\ \E ok \in BOOLEAN :
          transport' =
            [transport EXCEPT
               !.steps = Append(@, step),
               !.failed = ~ok,
               !.handed = IF ok /\ step = "close" THEN @ + 1 ELSE @,
               !.pc = IF ~ok THEN "smtp_failed"
                      ELSE IF AfterStep(step) = "return" THEN "smtp_returned"
                      ELSE AfterStep(step),
               !.lastErr = IF ~ok THEN step ELSE @,
               !.err = IF ok /\ AfterStep(step) = "return" THEN "nil" ELSE @]
    /\ UNCHANGED <<queueVars, exceptTransport>>

\* err != nil in the loop: lastErr = err, sleep unless this was the last
\* attempt, attempt++.
SmtpAttemptFailed ==
    /\ transport.pc = "smtp_failed"
    /\ transport' =
          [transport EXCEPT
             !.pc = "smtp_loop",
             !.attempt = @ + 1,
             !.sleeps = IF SleepsAfterFailure THEN @ + 1 ELSE @]
    /\ UNCHANGED <<queueVars, exceptTransport>>

SmtpNext ==
    \/ SmtpLoop
    \/ \E step \in Range(SmtpSteps) : SmtpStep(step)
    \/ SmtpAttemptFailed

SmtpSpec == SmtpInit /\ [][SmtpNext]_vars

\* ------------------------------------------------------ the rate limiter
\* FixedWindowRateLimiter for one IP.  Each request goroutine calls Allow;
\* every resetCount goroutine is a timer with the time it still sleeps.
\* Allow's two critical sections (under RLock, under Lock) and resetCount's
\* one are steps: nothing blocks inside them.  Beside the program's state
\* the record keeps, for the counter that exists, the time since it was
\* created, the timers started for it and the calls allowed against it.
Limit == 2
Window == 2
MaxCalls == 4

LimiterInit ==
    /\ QueueInit
    /\ OthersIdle({"limiter"})
    /\ limiter = [on |-> TRUE, exist |-> FALSE, count |-> 0,
                  timers |-> [r \in 0..Window |-> 0],
                  pc |-> [c \in Callers |-> "idle"],
                  seenExist |-> [c \in Callers |-> FALSE],
                  seenCount |-> [c \in Callers |-> 0],
                  ret |-> [c \in Callers |-> "none"],
                  calls |-> 0, age |-> 0, started |-> 0, granted |-> 0]

\* RLock; count, exist := client[ip]; RUnlock
AllowRead(c) ==
    /\ limiter.pc[c] = "idle"
    /\ limiter.calls < MaxCalls
    /\ limiter' = [limiter EXCEPT
                     !.pc[c] = "test",
                     !.seenExist[c] = limiter.exist,
                     !.seenCount[c] = IF limiter.exist THEN limiter.count
                                      ELSE 0,
                     !.ret[c] = "none",
                     !.calls = @ + 1]
    /\ UNCHANGED <<queueVars, exceptLimiter>>

\* if !exist || count < rateLimit.limit, on the values read earlier
MayPass(c) == ~limiter.seenExist[c] \/ limiter.seenCount[c] < Limit

\* Lock; if !exist { go resetCount(ip) }; client[ip]++; Unlock; return
\* true.  The increment of a missing key creates the counter with 1.
AllowGrant(c) ==
    /\ limiter.pc[c] = "test"
    /\ MayPass(c)
    /\ LET spawn == IF limiter.seenExist[c] THEN 0 ELSE 1
       IN limiter' = [limiter EXCEPT
                        !.pc[c] = "idle",
                        !.ret[c] = "true",
                        !.timers[Window] = @ + spawn,
                        !.exist = TRUE,
                        !.count = IF limiter.exist THEN @ + 1 ELSE 1,
                        !.age = IF limiter.exist THEN @ ELSE 0,
                        !.started = IF limiter.exist THEN @ + spawn
                                    ELSE spawn,
                        !.granted = IF limiter.exist THEN @ + 1 ELSE 1]
    /\ UNCHANGED <<queueVars, exceptLimiter>>

\* return false, rateLimit.window
AllowDeny(c) ==
    /\ limiter.pc[c] = "test"
    /\ ~MayPass(c)
    /\ limiter' = [limiter EXCEPT !.pc[c] = "idle", !.ret[c] = "false"]
    /\ UNCHANGED <<queueVars, exceptLimiter>>

\* resetCount after its sleep: Lock; delete(client, ip); Unlock
ResetCount ==
    /\ limiter.on
    /\ limiter.timers[0] > 0
    /\ limiter' = [limiter EXCEPT
                     !.timers[0] = @ - 1,
                     !.exist = FALSE,
                     !.count = 0]
    /\ UNCHANGED <<queueVars, exceptLimiter>>

\* One unit of time passes for every sleeping resetCount and for the
\* counter.  A resetCount whose sleep is over may run late.
LimiterTick ==
    /\ limiter.on
    /\ \E r \in 1..Window : limiter.timers[r] > 0
    /\ limiter' = [limiter EXCEPT
                     !.timers = [r \in 0..Window |->
                                   IF r = 0
                                   THEN limiter.timers[0] + limiter.timers[1]
                                   ELSE IF r = Window THEN 0
                                   ELSE limiter.timers[r + 1]],
                     !.age = IF limiter.exist THEN Min(@ + 1, Window) ELSE @]
    /\ UNCHANGED <<queueVars, exceptLimiter>>

LimiterNext ==
    \/ \E c \in Callers : AllowRead(c)
    \/ \E c \in Callers : AllowGrant(c)
    \/ \E c \in Callers : AllowDeny(c)
    \/ ResetCount
    \/ LimiterTick

LimiterSpec == LimiterInit /\ [][LimiterNext]_vars

\* ------------------------------------------- the queue, for every capacity
\* The queue built with a negative, a zero and a positive queueSize.
CapacityArgs == {-1, 0, MaxQueueArg}

CapacityInit ==
    /\ QueueInitWith({MaxWorkerArg}, CapacityArgs)
    /\ OthersIdle({})

CapacitySpec == CapacityInit /\ [][Next]_vars

\* ------------------------------------------------------------ type sanity
TypeOK ==
    /\ running \in BOOLEAN /\ closed \in BOOLEAN
    /\ Len(queue) <= queueSize
    /\ mu \in {0} \cup Callers
    /\ wg \in 0..(workerCount + MaxStale)
    /\ \A w \in Workers : wpc[w] \in {"none", "recv", "send", "lock", "done"}
    /\ \A c \in Callers :
          cpc[c] \in {"idle", "lock", "select", "sent", "wait", "sync"}
    /\ timer \in 0..WaitWindow
    /\ wg = Cardinality(LiveWorkers) + stale
    /\ stale \in 0..MaxStale

\* Whenever Start can spawn workers, those still alive are waiting at the
\* receive of a closed and empty channel.
StaleOK ==
    (~running /\ mu = 0 /\ LiveWorkers # {}) =>
        /\ closed /\ queue = <<>>
        /\ \A w \in LiveWorkers : wpc[w] = "recv"

\* ------------------------------------------------------------------ claims
\* A caller whose last call was a Stop that closed the channel and returned.
StopReturned(c) == cop[c] = "Stop" /\ cpc[c] = "idle" /\ cret[c] = "ok"

\* C1: a Stop that found the queue running (it has closed the channel and
\* waits for the workers) eventually returns, and when it has returned every
\* accepted job has been handed to a worker and its delivery has completed.
C1_StopDrainsAndReturns ==
    \A c \in Callers :
        (cpc[c] = "wait") ~> (StopReturned(c) /\ accepted \subseteq done)

\* C2: every job for which Enqueue returned nil is eventually passed to the
\* transport by some worker, whether or not Stop is called afterwards.
C2_AcceptedEventuallySent ==
    \A j \in JobIds : (j \in accepted) ~> (sent[j] >= 1)

\* An Enqueue call that has been invoked and has not returned.
EnqueuePending(c) == IsAsync(c) /\ cpc[c] \in {"lock", "select", "sent"}

\* C3: no Enqueue call stays blocked for more than one wait window, counted
\* from its invocation.
C3_EnqueueWaitsAtMostWindow ==
    \A c \in Callers : EnqueuePending(c) => elapsed[c] <= WaitWindow

\* The steps of an Enqueue blocked in the select: the buffer is untouched
\* while it waits, and ErrQueueFull is returned only at the end of the window.
C4_FullStepOK ==
    \A c \in Callers :
        /\ (cpc[c] = "select" /\ enqRet'[c] = ErrQueueFull) =>
               /\ timer = WaitWindow
               /\ Len(queue) = queueSize
               /\ queue' = queue
               /\ cret'[c] = ErrQueueFull
               /\ cjob[c] \notin accepted'
        /\ (cpc[c] = "select" /\ cpc'[c] = "select") =>
               /\ queue' = queue
               /\ timer' >= timer

\* An Enqueue blocked in the select: the buffer is full, and the call cannot
\* stay blocked (before the end of the window time can pass or a worker is
\* about to make room; from the end of the window on the call can return).
C4_SelectOK ==
    \A c \in Callers :
        cpc[c] = "select" =>
            /\ Len(queue) = queueSize
            /\ cjob[c] \notin accepted
            /\ IF timer < WaitWindow
               THEN /\ ~ENABLED EnqueueTimeout(c)
                    /\ \/ ENABLED Tick
                       \/ \E w \in Workers : ENABLED WorkerRecv(w)
               ELSE ENABLED EnqueueTimeout(c)

\* C4: an Enqueue that finds the buffer full returns ErrQueueFull only when
\* the timer has run for the whole wait window with the buffer full all the
\* time (never earlier), the rejected call leaves the buffer as it was, and
\* the call never stays blocked in the select.
C4_QueueFullAfterWindow == [](C4_SelectOK) /\ [][C4_FullStepOK]_vars

C4_Witness ==
    \E c \in Callers :
        /\ cop[c] = "Enqueue" /\ cpc[c] = "idle" /\ cret[c] = ErrQueueFull
        /\ Len(queue) = queueSize
        /\ \E w \in Workers : wpc[w] = "send"

\* The step in which Enqueue, holding the mutex, looks at the queue.
C5_Step ==
    \A c \in Callers :
        (/\ IsAsync(c) /\ cpc[c] = "lock" /\ cpc'[c] # "lock"
         /\ lifecycle \in {"new", "stopped"}) =>
            /\ enqRet'[c] = ErrQueueNotRunning
            /\ cret'[c] = ErrQueueNotRunning
            /\ cpc'[c] = "idle"
            /\ queue' = queue
            /\ accepted' = accepted

\* C5: an Enqueue call that runs on a queue that was never started, or that
\* was stopped by Stop (and not started again), returns ErrQueueNotRunning
\* and leaves the buffer unchanged.
C5_NotRunningRejected == [][C5_Step]_vars

C5_Witness ==
    \E c \in Callers :
        /\ cop[c] = "Enqueue" /\ cpc[c] = "idle"
        /\ enqRet[c] = ErrQueueNotRunning
        /\ lifecycle = "stopped"
        /\ \E d \in Callers : StopReturned(d)

\* The number of times job j occurs in the buffer.
InQueue(j) == Cardinality({i \in 1..Len(queue) : queue[i] = j})

\* The workers that hold job j.
Holders(j) == {w \in Workers : wjob[w] = j}

\* C6: a job is pulled by at most one worker and passed to the transport at
\* most once; once pulled it is never in the buffer again, and a job whose
\* delivery is finished was sent exactly once.
C6_ExactlyOnce ==
    \A j \in JobIds :
        /\ sent[j] <= 1
        /\ InQueue(j) + Cardinality(Holders(j)) <= 1
        /\ InQueue(j) = 1 => sent[j] = 0 /\ j \notin done
        /\ j \in done => sent[j] = 1 /\ Holders(j) = {}
        /\ sent[j] = 1 /\ j \notin done =>
               \E w \in Workers : wjob[w] = j /\ wpc[w] = "lock"

C6_Witness ==
    /\ Cardinality(done) >= 2
    /\ workerCount >= 2
    /\ \A j \in done : sent[j] = 1

\* The step in which Stop returns from wg.Wait().
C7_Step ==
    \A c \in Callers :
        (cpc[c] = "wait" /\ cpc'[c] = "idle") =>
            /\ LiveWorkers' = {}
            /\ stale' = 0
            /\ wg' = 0
            /\ queue' = <<>>
            /\ \A w \in Workers : wpc'[w] = "done"

\* C7: when a Stop that found the queue running returns, every worker has
\* left its loop (no worker goroutine is alive) and the buffer is empty.
C7_StopLeavesNoWorker == [][C7_Step]_vars

C7_Witness ==
    \E c \in Callers : StopReturned(c) /\ closed /\ done # {} /\ wg = 0

\* The number of worker goroutines alive.
Alive == Cardinality(LiveWorkers) + stale

\* The step that ends a delivery leads back to the receive, and a step
\* that reduces the number of live workers is not the end of a delivery.
C8_Step ==
    /\ \A w \in Workers :
          (wpc[w] = "lock" /\ wpc'[w] # "lock") =>
              /\ wpc'[w] = "recv"
              /\ wg' = wg
    /\ Alive' < Alive =>
          /\ closed
          /\ queue = <<>>
          /\ \A w \in Workers : wpc[w] = "lock" => wpc'[w] = "lock"

\* C8: a worker whose delivery failed goes back to the receive like one
\* whose delivery succeeded, and the number of live workers goes down only
\* by a worker finding the channel closed by Stop and empty.
C8_FailureKeepsWorker == [][C8_Step]_vars

C8_Witness ==
    \E w \in Workers :
        /\ wpc[w] = "lock" /\ werr[w] = "ErrSend"
        /\ mu = 0 /\ queue # <<>> /\ ~closed

\* C9: an asynchronous Send / SendWithOptions returns what Enqueue returned,
\* which is nil exactly for an accepted job and otherwise one of the two
\* rejections; the result of the delivery is never what the caller gets.
C9_AsyncReturnsEnqueueOutcome ==
    \A c \in Callers :
        (IsAsync(c) /\ cpc[c] = "idle") =>
            /\ cret[c] = enqRet[c]
            /\ cret[c] \in {"nil", ErrQueueFull, ErrQueueNotRunning, "panic"}
            /\ cret[c] = "nil" <=> cjob[c] \in accepted

C9_Witness ==
    \E c \in Callers : \E w \in Workers :
        /\ IsAsync(c) /\ cpc[c] = "idle" /\ cret[c] = "nil"
        /\ wjob[w] = cjob[c] /\ wpc[w] = "lock" /\ werr[w] = "ErrSend"

\* The two steps of a synchronous SendWithOptions: the call of the
\* transport and its return.
C10_Step ==
    \A c \in Callers :
        /\ (cpc[c] = "idle" /\ cpc'[c] = "sync") =>
               /\ cdeliv'[c] = "none"
               /\ UNCHANGED <<chanVars, mu, wg, workerVars, jobVars, lifecycle>>
        /\ (cpc[c] = "sync" /\ cpc'[c] # "sync") =>
               /\ cpc'[c] = "idle"
               /\ cdeliv[c] = "none"
               /\ cdeliv'[c] \in SendResults
               /\ cret'[c] = cdeliv'[c]
               /\ UNCHANGED <<chanVars, mu, wg, workerVars, jobVars, lifecycle>>

\* The transport call of a synchronous SendWithOptions can always complete.
C10_SyncNeverBlocked ==
    \A c \in Callers : cpc[c] = "sync" => ENABLED SyncSendDone(c)

\* C10: a synchronous SendWithOptions makes one transport call and returns
\* its result; its steps change nothing of the queue (buffer, running flag,
\* channel, mutex, workers, jobs), and the transport call can complete
\* whatever the state of the queue is, stopped or running.
C10_SyncBypassesQueue == [](C10_SyncNeverBlocked) /\ [][C10_Step]_vars

C10_Witness ==
    \E c \in Callers :
        /\ cop[c] = "SyncSend" /\ cpc[c] = "idle" /\ cret[c] = "ErrSend"
        /\ ~running /\ closed

\* Another caller's Start, Stop or Enqueue is in progress.
OtherCallInProgress(c) == \E d \in Callers \ {c} : cpc[d] \notin {"idle", "sync"}

\* The return of a synchronous call while another call is in progress gives
\* the transport's result and leaves the other call where it is.
C11_Step ==
    \A c \in Callers :
        (cpc[c] = "sync" /\ cpc'[c] = "idle" /\ OtherCallInProgress(c)) =>
            /\ cret'[c] \in SendResults
            /\ cret'[c] = cdeliv'[c]
            /\ mu' = mu
            /\ \A d \in Callers \ {c} : cpc'[d] = cpc[d] /\ cret'[d] = cret[d]

\* A synchronous call can complete while the mutex is held by a Stop in
\* wg.Wait() or by an Enqueue in its select, and while a call waits for it.
C11_Enabled ==
    \A c \in Callers :
        (cpc[c] = "sync" /\ (mu # 0 \/ OtherCallInProgress(c))) =>
            ENABLED SyncSendDone(c)

\* C11: a synchronous SendWithOptions that runs concurrently with Stop, Start
\* or Enqueue is never blocked by them (it can complete in every state,
\* whoever holds or waits for the mutex) and returns the transport's result.
C11_SyncConcurrentWithStop == [](C11_Enabled) /\ [][C11_Step]_vars

C11_Witness ==
    \E c \in Callers : \E d \in Callers \ {c} : \E w \in Workers :
        /\ cop[c] = "SyncSend" /\ cpc[c] = "idle" /\ cret[c] \in SendResults
        /\ cop[d] = "Stop" /\ cpc[d] = "wait" /\ mu = d
        /\ wpc[w] = "lock"

\* Once the channel is closed, no step adds a job to the buffer or to the
\* accepted jobs, and no Enqueue call returns nil.
C16_Step ==
    closed =>
        /\ accepted' = accepted
        /\ \A j \in JobIds : InQueue(j)' <= InQueue(j)
        /\ \A c \in Callers :
              (IsAsync(c) /\ cpc[c] # "idle" /\ cpc'[c] = "idle") =>
                  /\ enqRet'[c] \in {ErrQueueNotRunning, "panic"}
                  /\ cret'[c] # "nil"

\* While the channel is closed no Enqueue is past its running check.
C16_NoneInSelect ==
    closed => \A c \in Callers : cpc[c] \notin {"select", "sent"}

\* C16: once a Stop has closed the channel of a running queue, no Enqueue
\* call returns success and no job enters the buffer, whatever calls are
\* made afterwards, a further Start included.
C16_NoSuccessAfterStop == [](C16_NoneInSelect) /\ [][C16_Step]_vars

C16_Witness ==
    \E c \in Callers :
        /\ closed /\ running /\ lifecycle = "running"
        /\ IsAsync(c) /\ cpc[c] = "idle" /\ cret[c] = "panic"
        /\ cjob[c] \notin accepted

\* The step of a Start that finds the queue running.
C17_Step ==
    \A c \in Callers :
        (cop[c] = "Start" /\ cpc[c] = "lock" /\ cpc'[c] # "lock" /\ running) =>
            /\ cpc'[c] = "idle" /\ cret'[c] = "ok"
            /\ running'
            /\ UNCHANGED <<closed, queue, mu, wg, workerVars, jobVars,
                           lifecycle>>

\* C17: a Start that finds the queue running spawns no worker and changes
\* neither the running flag nor the buffer: the state after Start; Start
\* is the state after one Start.
C17_StartIdempotent == [][C17_Step]_vars

C17_Witness ==
    /\ \A c \in Callers : cop[c] = "Start" /\ cpc[c] = "idle" /\ cret[c] = "ok"
    /\ running /\ ~closed /\ wg = workerCount
    /\ Cardinality(LiveWorkers) = workerCount

\* The step of a Stop that finds the queue not running, and the steps that
\* execute close().
C18_Step ==
    \A c \in Callers :
        /\ (cop[c] = "Stop" /\ cpc[c] = "lock" /\ cpc'[c] # "lock" /\ ~running) =>
               /\ cpc'[c] = "idle" /\ cret'[c] = "ok"
               /\ UNCHANGED <<chanVars, mu, wg, workerVars, jobVars, lifecycle>>
        /\ (closed' /\ ~closed) => (running /\ lifecycle = "running")
        /\ closed => closed'

\* A Stop on a queue that is not running returns as soon as it has the
\* mutex.
C18_Enabled ==
    \A c \in Callers :
        (cop[c] = "Stop" /\ cpc[c] = "lock" /\ mu = 0) => ENABLED StopLock(c)

\* C18: a Stop that finds the queue not running (never started, or stopped
\* and not started again) returns at once and changes nothing; close() is
\* executed only by a Stop that finds the queue running, so Stop; Stop
\* closes the channel once and leaves the state of one Stop.
C18_StopIdempotent == [](C18_Enabled) /\ [][C18_Step]_vars

C18_Witness ==
    /\ \A c \in Callers : cop[c] = "Stop" /\ cpc[c] = "idle" /\ cret[c] = "ok"
    /\ closed /\ ~running /\ lifecycle = "stopped" /\ wg = 0

\* C19: in the host process Start is called on the mail queue at most once,
\* and whenever the process has exited after calling Start, Stop has been
\* called exactly once on the way out.
C19_StartOnceStopOnce ==
    /\ HostAlive => host.starts <= 1
    /\ (host.pc = "exited" /\ host.starts >= 1) =>
           host.starts = 1 /\ host.stops = 1

\* C22: the mutex is held only by a caller inside Start or Stop, and no
\* worker is at a point where it acquires or waits for the mutex.
C22_MutexOnlyStartStop ==
    /\ mu # 0 => cop[mu] \in {"Start", "Stop"}
    /\ \A w \in Workers : wpc[w] # "lock"

\* C23: the step that records the processing time never holds up a worker:
\* while a Stop waits for the workers, no worker that has finished its
\* delivery stands before the recording step (without that step the worker
\* would be on its way to the next receive, and Stop would return).
C23_RecordingNeverBlocks ==
    \A c \in Callers :
        cpc[c] = "wait" => \A w \in LiveWorkers : wpc[w] # "lock"

\* The step in which a call of Start or Stop takes effect.
StartStopStep(c) ==
    cop[c] \in {"Start", "Stop"} /\ cpc[c] = "lock" /\ cpc'[c] # "lock"

\* While a Stop is between close() and its return nobody else has acted on
\* the flag; before the first close() the workers spawned are exactly those
\* of one Start.
C24_State ==
    /\ running \in BOOLEAN
    /\ Cardinality({c \in Callers : cpc[c] = "wait"}) <= 1
    /\ \A c \in Callers : cpc[c] = "wait" => (mu = c /\ ~running /\ closed)
    /\ ~closed => /\ wg = (IF running THEN workerCount ELSE 0)
                  /\ Alive = wg

\* A call of Start or Stop takes effect in one step, taken while no other
\* Stop is between its close() and its return, and the effect is the one the
\* call has when run alone on the state it finds: Start on a running queue
\* and Stop on a stopped one change nothing, Start on a stopped queue adds
\* workerCount workers, Stop on a running queue clears the flag and closes
\* the channel (or panics if it is closed already).
C24_Step ==
    \A c \in Callers :
        StartStopStep(c) =>
            /\ \A d \in Callers \ {c} : cpc[d] # "wait"
            /\ mu = 0
            /\ cop[c] = "Start" =>
                  IF running
                  THEN UNCHANGED <<running, closed, wg, wpc, stale>>
                  ELSE /\ running' /\ wg' = wg + workerCount
                       /\ Cardinality(LiveWorkers') = workerCount
                       /\ UNCHANGED closed
            /\ cop[c] = "Stop" =>
                  IF ~running
                  THEN UNCHANGED <<running, closed, wg, wpc, stale>>
                  ELSE /\ ~running'
                       /\ \/ ~closed /\ closed' /\ cpc'[c] = "wait"
                          \/ closed /\ closed' /\ cret'[c] = "panic"
                       /\ UNCHANGED <<wg, wpc, stale>>

\* C24: concurrent calls of Start and Stop take effect one at a time, each
\* as if run alone: the Starts issued before the first Stop spawn workerCount
\* workers in total, a close() is executed only by a Stop that finds the flag
\* set and clears it, and the flag is a boolean.
C24_StartStopSerialized == [](C24_State) /\ [][C24_Step]_vars

C24_Witness ==
    \E c, d \in Callers :
        /\ c # d
        /\ cop[c] = "Stop" /\ cpc[c] = "wait"
        /\ cop[d] \in {"Start", "Stop"} /\ cpc[d] = "lock"
        /\ wg > 0

\* C25: whenever the running flag is set, exactly workerCount workers are
\* alive, and each of them holds at most one job.
C25_RunningHasWorkers ==
    running =>
        /\ Alive = workerCount
        /\ \A j \in JobIds : Cardinality(Holders(j)) <= 1

\* The buffer holds at most as many jobs as the channel was made for, and
\* that number is the constructor's queueSize, or 100 if that was not
\* positive.
C26_State ==
    /\ Len(queue) <= queueSize
    /\ queueSize = (IF args.queueSize <= 0 THEN 100 ELSE args.queueSize)

\* C26: the number of jobs in the buffer never exceeds the capacity given
\* at construction (queueSize, or 100 if queueSize <= 0), and no step of
\* Enqueue, Start, Stop or a worker changes that capacity.
C26_CapacityFixed == [](C26_State) /\ [][queueSize' = queueSize /\ args' = args]_vars

C26_Witness ==
    /\ Len(queue) = queueSize
    /\ \E c \in Callers : cpc[c] = "select"
    /\ \E w \in Workers : wpc[w] \in {"send", "lock"}

\* C27: jobs leave the buffer in the order in which they entered it, which
\* is the order in which their Enqueue calls returned nil; each worker
\* passes its jobs to the transport in the order it pulled them; with one
\* worker the transport is called in the order of acceptance.
C27_Fifo ==
    fifo.on =>
        /\ IsPrefix(fifo.pulled, fifo.entered)
        /\ IsPrefix(fifo.returned, fifo.entered)
        /\ ~Pending => fifo.entered = fifo.pulled \o queue
        /\ \A w \in Workers : IsPrefix(fifo.sentBy[w], fifo.pulledBy[w])
        /\ workerCount = 1 => IsPrefix(fifo.sent, fifo.entered)

C27_Witness ==
    /\ fifo.on
    /\ workerCount = 1
    /\ Len(fifo.sent) >= 2
    /\ fifo.sent[1] > fifo.sent[2]
    /\ Len(queue) >= 1

\* The welcome mail has failed: SendWithOptions returned an error or
\* panicked, or the worker's delivery of the queued mail failed.
WelcomeMailFailed ==
    MailFailed(handler.mailErr) \/ handler.delivery \notin {"none", "nil"}

\* C28: when registerUserHandler has finished and the welcome mail has
\* failed, the user record created by the request is gone and no token has
\* been returned.
C28_RollbackOnMailFailure ==
    (handler.pc = "done" /\ handler.mailErr # "none" /\ WelcomeMailFailed) =>
        (~handler.user /\ ~handler.token)

\* What the handler does do: when SendWithOptions returns an error it
\* answers 500 without a token, and the record is gone if Delete succeeded;
\* when SendWithOptions returns nil the record stays.
C28_HandlerStep ==
    /\ (handler.pc = "rollback" /\ handler'.pc # "rollback") =>
          /\ handler'.resp = "500" /\ ~handler'.token
          /\ handler.mailErr \in {ErrQueueFull, ErrQueueNotRunning}
    /\ (handler.pc = "mail" /\ handler'.pc = "token") =>
          /\ handler'.mailErr = "nil" /\ handler'.user
          /\ cjob[Registrant] \in accepted

RollbackAttempted == [][C28_HandlerStep]_vars

\* An attempt that has returned after reading the body of a response.
HttpAnswered == transport.pc = "http_returned" /\ transport.read

\* C29: an attempt that got a response and read its body returns success
\* exactly when the status is in 200..299 and the body does not parse or
\* parses with success = true; otherwise the error carries the provider's
\* error field, else its message field, else the status and the body.
C29_HttpAttemptRule ==
    HttpAnswered =>
        LET st == transport.status
            b == transport.body
            good == st \in 200..299 /\ (~b.json \/ b.success)
        IN /\ transport.err = "nil" <=> good
           /\ ~good =>
                 IF b.json /\ b.error # ""
                 THEN transport.msg.text = b.error /\ ~transport.msg.raw
                 ELSE IF b.json /\ b.message # ""
                 THEN transport.msg.text = b.message /\ ~transport.msg.raw
                 ELSE transport.msg.raw

C29_Witness ==
    /\ HttpAnswered
    /\ transport.status = 299 /\ ~transport.body.json
    /\ transport.err = "nil"

\* n characters of white space.
Spaces(n) == [i \in 1..n |-> " "]

\* t is str without its leading and trailing white space.
IsTrimOf(t, str) ==
    /\ t = <<>> \/ (t[1] # " " /\ t[Len(t)] # " ")
    /\ \E i, j \in 0..Len(str) : str = Spaces(i) \o t \o Spaces(j)

SubjectChosen == transport.pc = "subject_chosen"

\* C30: a non-empty subject from the caller is used unchanged; with an
\* empty one, the subject is the trimmed rendering of the template's
\* subject block if the template defines one, and "Message for
\* {recipientName}" if it defines none.
C30_SubjectAsStated ==
    SubjectChosen =>
        LET t == transport
        IN /\ t.arg # <<>> => t.subject = t.arg
           /\ (t.arg = <<>> /\ t.block.defined) =>
                 IsTrimOf(t.subject, t.block.text)
           /\ (t.arg = <<>> /\ ~t.block.defined) =>
                 t.subject = <<"Message for ", t.username>>

\* What the code does: the same, with "the block executes without error"
\* in place of "the template defines a block".
SubjectByExecution ==
    SubjectChosen =>
        LET t == transport
        IN /\ t.arg # <<>> => t.subject = t.arg
           /\ (t.arg = <<>> /\ t.block.defined /\ t.block.ok) =>
                 IsTrimOf(t.subject, t.block.text)
           /\ (t.arg = <<>> /\ ~(t.block.defined /\ t.block.ok)) =>
                 t.subject = <<"Message for ", t.username>>

\* The callers that pass async_db to SendWithOptions.
Persistent == {c \in Handlers : facade[c] = AsyncPersistent}

\* A call with async_db is never on the synchronous path, and once it has
\* returned it holds what Enqueue returned, nil exactly if the job entered
\* the buffer.
C21_State ==
    \A c \in Persistent :
        /\ cpc[c] # "sync"
        /\ cop[c] \in {"none", "Enqueue"}
        /\ cdeliv[c] = "none"
        /\ (cop[c] = "Enqueue" /\ cpc[c] = "idle") =>
              /\ cret[c] = enqRet[c]
              /\ cret[c] \in {"nil", ErrQueueFull, ErrQueueNotRunning, "panic"}
              /\ cret[c] = "nil" <=> cjob[c] \in accepted
              /\ cret[c] = "nil" =>
                    \/ InQueue(cjob[c]) = 1
                    \/ Holders(cjob[c]) # {}
                    \/ cjob[c] \in done

\* The first step of a call with async_db is the one of a call with
\* async_memory: a job is built and Enqueue is entered.
C21_Step ==
    \A c \in Persistent :
        (cpc[c] = "idle" /\ cpc'[c] # "idle") =>
            /\ Dispatch(AsyncPersistent) = Dispatch(AsyncInMemory)
            /\ cop'[c] = "Enqueue" /\ cpc'[c] = "lock"
            /\ cjob'[c] = nextJob /\ nextJob' = nextJob + 1
            /\ UNCHANGED <<chanVars, mu, accepted>>

\* C21: SendWithOptions with mode async_db behaves like async_memory: it
\* builds a job, calls Enqueue and returns Enqueue's outcome; it never calls
\* the transport itself, and it returns nil only for a job that has entered
\* the buffer (which is then in the buffer, with a worker, or delivered).
C21_PersistentIsAsync == [](C21_State) /\ [][C21_Step]_vars

C21_Witness ==
    \E c \in Persistent :
        /\ cop[c] = "Enqueue" /\ cpc[c] = "idle" /\ cret[c] = "nil"
        /\ InQueue(cjob[c]) = 1

\* ------------------------------------------------- claims on the transport
\* Send has been called and has not yet been forgotten.
TCalled == transport.pc # "idle"
TReturned == transport.pc = "returned"
TRendered == transport.parseOk /\ transport.bodyOk

\* The first attempt at which the network primitive succeeds (0: never).
FirstSuccess(net) ==
    IF \E k \in 1..maxRetries : net[k]
    THEN CHOOSE k \in 1..maxRetries :
            net[k] /\ \A i \in 1..(k - 1) : ~net[i]
    ELSE 0

\* C12: with sandbox true no transport ever calls the network primitive or
\* sleeps, and the call returns nil exactly when the template parsed and
\* its body rendered; a template that fails to parse or to render gives an
\* error also in sandbox mode, because the flag is read after rendering.
C12_SandboxNoNetwork ==
    (TCalled /\ transport.sandbox) =>
        /\ transport.attempts = 0
        /\ transport.sleeps = 0
        /\ transport.pc \notin {"attempt", "sleep"}
        /\ TReturned =>
              /\ (TRendered => transport.err = "nil")
              /\ (~transport.parseOk => transport.err = "ErrParse")
              /\ (transport.parseOk /\ ~transport.bodyOk =>
                      transport.err = "ErrExecute")

C12_Witness ==
    /\ TReturned /\ transport.sandbox /\ TRendered
    /\ transport.err = "nil" /\ transport.attempts = 0
    /\ \A k \in 1..maxRetries : ~transport.net[k]

\* C13: for a delivery without sandbox whose rendering succeeds, on a
\* transport with the retry loop, if attempt k is the first on which the
\* network succeeds then Send returns nil after exactly k attempts and k - 1
\* sleeps, and at no time has it made more than k attempts or k - 1 sleeps.
C13_SuccessAtAttemptK ==
    (/\ TCalled /\ transport.kind \in RetryKinds
     /\ ~transport.sandbox /\ TRendered
     /\ FirstSuccess(transport.net) # 0) =>
        LET k == FirstSuccess(transport.net) IN
        /\ transport.attempts <= k
        /\ transport.sleeps <= k - 1
        /\ TReturned =>
              /\ transport.err = "nil"
              /\ transport.attempts = k
              /\ transport.sleeps = k - 1

C13_Witness ==
    /\ TReturned /\ transport.kind \in RetryKinds
    /\ ~transport.sandbox /\ TRendered
    /\ transport.net = [k \in 1..maxRetries |-> k = maxRetries]
    /\ transport.err = "nil"
    /\ transport.attempts = maxRetries /\ transport.sleeps = maxRetries - 1

\* C14: on a transport with the retry loop, if every attempt fails Send
\* makes exactly maxRetries attempts and maxRetries - 1 sleeps, none after
\* the last attempt, and returns an error that wraps the error of attempt
\* maxRetries, the last one.
C14_ExhaustedWrapsLast ==
    (/\ TCalled /\ transport.kind \in RetryKinds
     /\ ~transport.sandbox /\ TRendered
     /\ FirstSuccess(transport.net) = 0) =>
        /\ transport.attempts <= maxRetries
        /\ transport.sleeps <= maxRetries - 1
        /\ transport.sleeps <= transport.attempts
        /\ TReturned =>
              /\ transport.err = "ErrSend"
              /\ transport.attempts = maxRetries
              /\ transport.sleeps = maxRetries - 1
              /\ transport.wraps = maxRetries

C14_Witness ==
    /\ TReturned /\ transport.kind = "Http"
    /\ ~transport.sandbox /\ TRendered
    /\ FirstSuccess(transport.net) = 0
    /\ transport.err = "ErrSend" /\ transport.wraps = maxRetries

\* C15: if the template fails to parse or its body fails to render, Send
\* never calls the network primitive and never sleeps, whatever the sandbox
\* flag and the network, and it returns the error of the failed step.
C15_RenderFailureNotRetried ==
    (TCalled /\ ~TRendered) =>
        /\ transport.attempts = 0
        /\ transport.sleeps = 0
        /\ transport.pc \in {"parse", "execute", "returned"}
        /\ (transport.pc = "execute" => transport.parseOk)
        /\ TReturned =>
              transport.err = IF transport.parseOk THEN "ErrExecute"
                                                   ELSE "ErrParse"

C15_Witness ==
    /\ TReturned /\ ~transport.parseOk /\ ~transport.sandbox
    /\ transport.err = "ErrParse" /\ transport.attempts = 0
    /\ \A k \in 1..maxRetries : transport.net[k]

\* What the caller can tell apart: success, a rendering error (parse or
\* execute), a delivery error.
ErrClass(err) == IF err \in {"ErrParse", "ErrExecute"} THEN "ErrRender" ELSE err

\* The outcome of the call that has returned, as the contract sees it.
TOutcome ==
    [err |-> ErrClass(transport.err), attempts |-> transport.attempts,
     sleeps |-> transport.sleeps]

\* Send with the retry loop, computed step by step, returns what
\* TransportSend computes for the same inputs.
TransportSendAgrees ==
    (TReturned /\ transport.kind \in RetryKinds) =>
        TOutcome = TransportSend(TRendered, transport.sandbox, transport.net)

\* C20: every SMTP transport returns, for the same template, flag and
\* per-attempt network outcomes, what the HTTP-API transport returns: the
\* same error class after the same number of attempts and of sleeps.
C20_SameContract ==
    (TReturned /\ transport.kind # "Http") =>
        TOutcome = TransportSend(TRendered, transport.sandbox, transport.net)

\* C32: while an Enqueue waits in the select on the full buffer, a worker
\* that has finished its delivery can go on to pull its next job: it does
\* not have to wait for the Enqueue call to return.
C32_WorkerNotHeldByEnqueue ==
    \A c \in Callers : \A w \in Workers :
        (cpc[c] = "select" /\ Len(queue) = queueSize /\ wpc[w] = "lock") =>
            ENABLED WorkerRecord(w)

\* C33: no call of Start, Stop or Enqueue panics: no job is sent on the
\* closed channel and the channel is not closed a second time.
C33_NeverPanics ==
    \A c \in Callers : cret[c] # "panic" /\ enqRet[c] # "panic"

\* The steps of one attempt for the server and the credentials at hand:
\* STARTTLS only if advertised, AUTH only with a user name and a password.
SmtpExpected ==
    LET Included(step) ==
            /\ step = "starttls" => transport.starttls
            /\ step = "auth" => (transport.user /\ transport.pass)
    IN SelectSeq(SmtpSteps, Included)

\* The steps run in an attempt are an initial part of the expected ones, a
\* step is about to run only if it is the next expected one and none has
\* failed in this attempt, and nil is returned only after all of them.
C31_State ==
    /\ IsPrefix(transport.steps, SmtpExpected)
    /\ transport.pc \in Range(SmtpSteps) =>
          /\ ~transport.failed
          /\ IsPrefix(Append(transport.steps, transport.pc), SmtpExpected)
    /\ transport.pc = "smtp_failed" =>
          /\ transport.failed
          /\ transport.lastErr = transport.steps[Len(transport.steps)]
    /\ transport.err = "nil" =>
          (~transport.failed /\ transport.steps = SmtpExpected)

\* After a failed step the loop goes on: the next attempt begins with the
\* dial unless maxRetries attempts have been made.
C31_Step ==
    /\ transport.pc = "smtp_failed" =>
          /\ transport'.pc = "smtp_loop"
          /\ transport'.attempt = transport.attempt + 1
          /\ transport'.err = "none"
          /\ transport'.steps = transport.steps
    /\ (transport.pc = "smtp_loop" /\ transport.attempt <= maxRetries) =>
          (transport'.pc = "dial" /\ transport'.steps = <<>>)

\* C31: within one SMTP attempt the steps run in the order dial, HELO/EHLO,
\* STARTTLS if advertised, AUTH if credentials are set, MAIL FROM, RCPT TO,
\* DATA, QUIT; a failed step ends the attempt with no later step run, and
\* the retry loop goes on to the next attempt.
C31_SmtpStepOrder == [](C31_State) /\ [][C31_Step]_vars

C31_Witness ==
    /\ transport.pc = "smtp_returned" /\ transport.err = "nil"
    /\ transport.attempt = 2 /\ transport.lastErr = "rcpt"
    /\ transport.starttls /\ ~transport.user

\* C34: within one delivery call the data writer is closed successfully,
\* and so the message handed to the server, at most once.
C34_HandedOverOnce == transport.handed <= 1

\* C35: the counter of an IP never exceeds the limit, and at most `limit`
\* calls of Allow return true between the creation of the counter and its
\* reset.
C35_AtMostLimit ==
    limiter.exist => (limiter.count <= Limit /\ limiter.granted <= Limit)

\* A counter is deleted only when a full window has passed since it was
\* created.
C36_Step ==
    (limiter.exist /\ ~limiter'.exist) => limiter.age = Window

\* C36: for each counter exactly one reset timer is started, and the
\* counter is deleted only a full window after its creation, never by a
\* timer started for an earlier counter.
C36_OneTimerPerWindow ==
    [](limiter.exist => limiter.started = 1) /\ [][C36_Step]_vars
====
